---- MODULE Spec2Model ----
(***************************************************************************)
(* A model of the Pinky compiler: the lexer (src/lexer.ts), the            *)
(* compileFromSource facade (both definitions), the back-end `compile`     *)
(* and the execution of the WebAssembly code it emits.                     *)
(*                                                                         *)
(* Characters are UTF-16 code units (naturals), a source is a sequence of  *)
(* code units, so that the lexer's character comparisons are the numeric   *)
(* comparisons JavaScript performs.                                        *)
(***************************************************************************)
EXTENDS Integers, Sequences, FiniteSets, TLC

VARIABLES
    variant,      \* which definition of compileFromSource runs (1 or 2)
    src,          \* tokenize: the source string
    pos,          \* tokenize: { line, column, current }
    tokens,       \* tokenize: Token[]
    tokenError,   \* tokenize: the returned error (Null when none)
    pc,           \* position of the running call
    calls,        \* stages invoked so far, in order
    ast,          \* value bound to `ast` in compileFromSource
    parseError,   \* value bound to `parseError`
    cres,         \* value returned by compile
    result,       \* value returned by compileFromSource
    mstate,       \* module-level mutables of the compiler
    prog,         \* the statements (indices of StmtPool) of the program compiled
    rt            \* the machine executing the compiled module

lexVars == <<src, pos, tokens, tokenError>>
vars == <<variant, src, pos, tokens, tokenError, pc, calls, ast, parseError,
          cres, result, mstate, prog, rt>>

Null == [class |-> "null"]
IsNull(v) == v.class = "null"

(***************************************************************************)
(* Bounds of the model.                                                    *)
(***************************************************************************)
MaxFrags == 3
MaxStmts == 2
MaxCalls == 2
MaxVal == 1

(***************************************************************************)
(* src/lexer.ts                                                            *)
(***************************************************************************)
Ch == [nul |-> 0, tab |-> 9, lf |-> 10, cr |-> 13, space |-> 32,
       dquote |-> 34, hash |-> 35, percent |-> 37, squote |-> 39,
       lparen |-> 40, rparen |-> 41, star |-> 42, plus |-> 43, comma |-> 44,
       minus |-> 45, dot |-> 46, slash |-> 47, d0 |-> 48, d1 |-> 49,
       d4 |-> 52, d9 |-> 57, colon |-> 58, lt |-> 60, eq |-> 61, gt |-> 62,
       A |-> 65, F |-> 70, Z |-> 90, backslash |-> 92, caret |-> 94,
       underscore |-> 95, a |-> 97, f |-> 102, n |-> 110, r |-> 114,
       t |-> 116, u |-> 117, x |-> 120, z |-> 122, lbrace |-> 123,
       rbrace |-> 125, tilde |-> 126]

\* the value of an out-of-range index, src[i] with i >= src.length
Undefined == 0 - 1

isAlpha(c) ==
    \/ (c >= Ch.a /\ c <= Ch.z)
    \/ (c >= Ch.A /\ c <= Ch.Z)
    \/ c = Ch.underscore
isDigit(c) == (c >= Ch.d0 /\ c <= Ch.d9) \/ c = Ch.dot
isAlphaNumeric(c) == isAlpha(c) \/ isDigit(c)
isNewline(c) == c = Ch.lf
isEndOfFile(c) == c = Ch.nul

peek(s, curr) == IF curr < Len(s) THEN s[curr + 1] ELSE Ch.nul
lookahead(s, curr, n) == IF curr + n < Len(s) THEN s[curr + n + 1] ELSE Ch.nul
match(s, curr, c) == peek(s, curr) = c
\* src[i] of JavaScript: undefined past the end
charAt(s, i) == IF i < Len(s) THEN s[i + 1] ELSE Undefined

advance(s, p) ==
    LET char == peek(s, p.current) IN
    [line    |-> IF isNewline(char) THEN p.line + 1 ELSE p.line,
     column  |-> IF isNewline(char) THEN 1 ELSE p.column + 1,
     current |-> p.current + 1]

RECURSIVE advanceN(_, _, _)
\* for (let i = 0; i < adv; i++) pos = advance(...)
advanceN(s, p, k) == IF k <= 0 THEN p ELSE advanceN(s, advance(s, p), k - 1)

ESCAPE_SEQUENCES(c) ==
    CASE c = Ch.n -> <<Ch.lf>>
      [] c = Ch.t -> <<Ch.tab>>
      [] c = Ch.r -> <<Ch.cr>>
      [] c = Ch.dquote -> <<Ch.dquote>>
      [] c = Ch.squote -> <<Ch.squote>>
      [] c = Ch.backslash -> <<Ch.backslash>>
      [] c = Ch.d0 -> <<Ch.nul>>
      \* the text String(undefined), appended by `value += undefined`
      [] c = Undefined -> <<117, 110, 100, 101, 102, 105, 110, 101, 100>>
      [] OTHER -> <<c>>

isHexDigit(c) ==
    \/ (c >= Ch.d0 /\ c <= Ch.d9)
    \/ (c >= Ch.a /\ c <= Ch.f)
    \/ (c >= Ch.A /\ c <= Ch.F)
hexDigitValue(c) ==
    IF c >= Ch.d0 /\ c <= Ch.d9 THEN c - Ch.d0
    ELSE IF c >= Ch.a /\ c <= Ch.f THEN c - Ch.a + 10
    ELSE c - Ch.A + 10

RECURSIVE parseIntHex(_)
\* Number.parseInt(hex, 16) of a string of hex digits; NaN is Undefined
parseIntHex(h) ==
    IF Len(h) = 0 THEN Undefined
    ELSE IF Len(h) = 1 THEN hexDigitValue(h[1])
    ELSE 16 * parseIntHex(SubSeq(h, 1, Len(h) - 1)) + hexDigitValue(h[Len(h)])

MaxCodePoint == 1114111
\* String.fromCodePoint: one code unit, a surrogate pair, or a RangeError
fromCodePoint(cp) ==
    IF cp > MaxCodePoint THEN [thrown |-> TRUE, char |-> <<>>]
    ELSE IF cp < 65536 THEN [thrown |-> FALSE, char |-> <<cp>>]
    ELSE [thrown |-> FALSE,
          char |-> <<55296 + ((cp - 65536) \div 1024),
                     56320 + ((cp - 65536) % 1024)>>]

RECURSIVE scanHex(_, _, _)
\* while (i < src.length && src[i] !== "}") { if (!hex) break; hex += src[i++] }
scanHex(s, i, hex) ==
    IF i < Len(s) /\ charAt(s, i) # Ch.rbrace /\ isHexDigit(charAt(s, i))
    THEN scanHex(s, i + 1, Append(hex, charAt(s, i)))
    ELSE [i |-> i, hex |-> hex]

decodeStringLiteralSegment(s, start) ==
    LET c == charAt(s, start + 1) IN
    IF c = Ch.u THEN
        IF charAt(s, start + 2) = Ch.lbrace THEN
            LET sc == scanHex(s, start + 3, <<>>)
                codePoint == parseIntHex(sc.hex)
                raw == [char |-> <<Ch.backslash, Ch.u, Ch.lbrace>> \o sc.hex
                                     \o <<Ch.rbrace>>,
                        advance |-> sc.i - start, thrown |-> FALSE]
            IN  IF charAt(s, sc.i) = Ch.rbrace /\ codePoint # Undefined
                THEN [char |-> fromCodePoint(codePoint).char,
                      advance |-> sc.i - start + 1,
                      thrown |-> fromCodePoint(codePoint).thrown]
                ELSE raw
        ELSE
            LET hex == SubSeq(s, start + 3,
                              IF start + 6 <= Len(s) THEN start + 6 ELSE Len(s))
            IN  IF Len(hex) = 4 /\ \A k \in 1..4 : isHexDigit(hex[k])
                THEN [char |-> <<parseIntHex(hex)>>, advance |-> 6,
                      thrown |-> FALSE]
                ELSE [char |-> <<Ch.backslash, Ch.u>>, advance |-> 2,
                      thrown |-> FALSE]
    ELSE [char |-> ESCAPE_SEQUENCES(c), advance |-> 2, thrown |-> FALSE]

RECURSIVE scanString(_, _, _, _)
\* the loop of the string case: up to the closing quote or the end of input
scanString(s, p, quote, value) ==
    LET char == peek(s, p.current) IN
    IF isEndOfFile(char) \/ match(s, p.current, quote)
    THEN [pos |-> p, value |-> value, thrown |-> FALSE]
    ELSE IF char = Ch.backslash
    THEN LET d == decodeStringLiteralSegment(s, p.current) IN
         IF d.thrown THEN [pos |-> p, value |-> value, thrown |-> TRUE]
         ELSE scanString(s, advanceN(s, p, d.advance), quote, value \o d.char)
    ELSE scanString(s, advance(s, p), quote, Append(value, char))

RECURSIVE scanComment(_, _, _)
scanComment(s, p, value) ==
    IF ~isEndOfFile(peek(s, p.current)) /\ ~match(s, p.current, Ch.lf)
    THEN scanComment(s, advance(s, p), Append(value, peek(s, p.current)))
    ELSE [pos |-> p, value |-> value]

RECURSIVE scanNumber(_, _, _)
\* the loop of the number case; bad = a '.' not followed by a digit
scanNumber(s, p, value) ==
    IF ~isEndOfFile(peek(s, p.current))
       /\ (isDigit(peek(s, p.current)) \/ match(s, p.current, Ch.dot))
    THEN IF match(s, p.current, Ch.dot) /\ ~isDigit(lookahead(s, p.current, 1))
         THEN [pos |-> p, value |-> value, bad |-> TRUE]
         ELSE scanNumber(s, advance(s, p), Append(value, peek(s, p.current)))
    ELSE [pos |-> p, value |-> value, bad |-> FALSE]

RECURSIVE scanIdentifier(_, _, _)
scanIdentifier(s, p, value) ==
    IF ~isEndOfFile(peek(s, p.current)) /\ isAlphaNumeric(peek(s, p.current))
    THEN scanIdentifier(s, advance(s, p), Append(value, peek(s, p.current)))
    ELSE [pos |-> p, value |-> value]

\* tokenTypes of ./tokens: the type of an operator or punctuation token
tokenTypes(v) ==
    CASE v = <<Ch.lparen>> -> "LPAREN"
      [] v = <<Ch.rparen>> -> "RPAREN"
      [] v = <<Ch.comma>> -> "COMMA"
      [] v = <<Ch.plus>> -> "PLUS"
      [] v = <<Ch.star>> -> "STAR"
      [] v = <<Ch.caret>> -> "CARET"
      [] v = <<Ch.slash>> -> "SLASH"
      [] v = <<Ch.percent>> -> "MOD"
      [] v = <<Ch.gt>> -> "GT"
      [] v = <<Ch.lt>> -> "LT"
      [] v = <<Ch.gt, Ch.eq>> -> "GE"
      [] v = <<Ch.lt, Ch.eq>> -> "LE"
      [] v = <<Ch.tilde>> -> "NOT"
      [] v = <<Ch.tilde, Ch.eq>> -> "NE"
      [] v = <<Ch.colon, Ch.eq>> -> "ASSIGN"
      [] v = <<Ch.eq, Ch.eq>> -> "EQEQ"
      [] OTHER -> "undefined"

\* keywords of ./tokens, restricted to the words the model's alphabet spells
keywords(v) == IF v = <<Ch.x, Ch.x>> THEN "KEYWORD" ELSE "IDENTIFIER"

\* an addToken that takes both ends of the span from the current position
mkTokenAtCurrent(type, value, p, start, column) ==
    [type |-> type, value |-> value, line |-> p.line, column |-> column,
     start |-> p.current, end |-> p.current]

\* addToken with explicit start and column; line and end default to pos
mkToken(type, value, p, start, column) ==
    [type |-> type, value |-> value, line |-> p.line, column |-> column,
     start |-> start, end |-> p.current]
\* addToken({ type: "EOF", value: "" }): every field defaults to pos
eofToken(p) ==
    [type |-> "EOF", value |-> <<>>, line |-> p.line, column |-> p.column,
     start |-> p.current, end |-> p.current]

\* errorReturn(message, details): details?.line || pos.line
errorReturn(message, ch, line, column) ==
    [class |-> "TokenError", message |-> message, ch |-> ch,
     line |-> line, column |-> column]

Lexing == pc = "tokenize" /\ ~isEndOfFile(peek(src, pos.current))
cur == peek(src, pos.current)

\* a return of an error that leaves the token list as it is
LexReturnErrorWithoutEof(err) ==
    /\ tokens' = tokens
    /\ tokenError' = err
    /\ pc' = "tokenized"
    /\ UNCHANGED <<src, pos>>

\* return { tokens, error } with the EOF token appended first
LexReturnError(err) ==
    /\ tokens' = Append(tokens, eofToken(pos))
    /\ tokenError' = err
    /\ pc' = "tokenized"
    /\ UNCHANGED <<src, pos>>

LexWhitespace ==
    /\ Lexing
    /\ cur \in {Ch.space, Ch.tab, Ch.cr, Ch.lf}
    /\ pos' = advance(src, pos)
    /\ UNCHANGED <<src, tokens, tokenError, pc>>

LexSingle ==
    /\ Lexing
    /\ cur \in {Ch.lparen, Ch.rparen, Ch.comma, Ch.plus, Ch.star, Ch.caret,
                Ch.slash, Ch.percent}
    /\ pos' = advance(src, pos)
    /\ tokens' = Append(tokens, mkToken(tokenTypes(<<cur>>), <<cur>>, pos',
                                        pos.current, pos.column))
    /\ UNCHANGED <<src, tokenError, pc>>

LexString ==
    /\ Lexing
    /\ cur \in {Ch.squote, Ch.dquote}
    /\ LET quotePos == pos
           sc == scanString(src, advance(src, pos), cur, <<>>)
       IN  IF sc.thrown
           THEN \* String.fromCodePoint raised a RangeError: tokenize throws
                /\ pc' = "thrown"
                /\ pos' = sc.pos
                /\ UNCHANGED <<src, tokens, tokenError>>
           ELSE IF isEndOfFile(peek(src, sc.pos.current))
           THEN /\ tokens' = Append(tokens, eofToken(sc.pos))
                /\ tokenError' = errorReturn("Unterminated string literal at line",
                                             cur, quotePos.line, quotePos.column)
                /\ pos' = sc.pos
                /\ pc' = "tokenized"
                /\ UNCHANGED src
           ELSE /\ pos' = advance(src, sc.pos)
                /\ tokens' = Append(tokens, mkToken("STRING", sc.value, pos',
                                                    pos.current, pos.column))
                /\ UNCHANGED <<src, tokenError, pc>>

LexCompare ==
    /\ Lexing
    /\ cur \in {Ch.gt, Ch.lt}
    /\ IF lookahead(src, pos.current, 1) = Ch.eq
       THEN /\ pos' = advance(src, advance(src, pos))
            /\ tokens' = Append(tokens, mkToken(tokenTypes(<<cur, Ch.eq>>),
                                 <<cur, Ch.eq>>, pos', pos.current, pos.column))
       ELSE /\ pos' = advance(src, pos)
            /\ tokens' = Append(tokens, mkToken(tokenTypes(<<cur>>), <<cur>>,
                                 pos', pos.current, pos.column))
    /\ UNCHANGED <<src, tokenError, pc>>

LexAssignOrNot ==
    /\ Lexing
    /\ cur \in {Ch.tilde, Ch.colon, Ch.eq}
    /\ IF cur = Ch.tilde /\ lookahead(src, pos.current, 1) # Ch.eq
       THEN /\ pos' = advance(src, pos)
            /\ tokens' = Append(tokens, mkToken(tokenTypes(<<cur>>), <<cur>>,
                                 pos', pos.current, pos.column))
            /\ UNCHANGED <<src, tokenError, pc>>
       ELSE IF lookahead(src, pos.current, 1) # Ch.eq
       THEN LexReturnError(errorReturn("Unexpected character", cur,
                                       pos.line, pos.column))
       ELSE /\ pos' = advance(src, advance(src, pos))
            /\ tokens' = Append(tokens, mkToken(tokenTypes(<<cur, Ch.eq>>),
                                 <<cur, Ch.eq>>, pos', pos.current, pos.column))
            /\ UNCHANGED <<src, tokenError, pc>>

LexMinus ==
    /\ Lexing
    /\ cur = Ch.minus
    /\ IF lookahead(src, pos.current, 1) # Ch.minus
       THEN /\ pos' = advance(src, pos)
            /\ tokens' = Append(tokens, mkToken("MINUS", <<cur>>, pos',
                                                pos.current, pos.column))
       ELSE LET sc == scanComment(src, pos, <<>>) IN
            /\ pos' = sc.pos
            /\ tokens' = Append(tokens, mkToken("COMMENT", sc.value, pos',
                                                pos.current, pos.column))
    /\ UNCHANGED <<src, tokenError, pc>>

IsDefaultCase(c) ==
    c \notin {Ch.space, Ch.tab, Ch.cr, Ch.lf, Ch.lparen, Ch.rparen, Ch.comma,
              Ch.plus, Ch.star, Ch.caret, Ch.slash, Ch.percent, Ch.squote,
              Ch.dquote, Ch.gt, Ch.lt, Ch.tilde, Ch.colon, Ch.eq, Ch.minus}

LexNumber ==
    /\ Lexing
    /\ IsDefaultCase(cur) /\ isDigit(cur)
    /\ LET sc == scanNumber(src, pos, <<>>) IN
       IF sc.bad
       THEN /\ tokens' = Append(tokens, eofToken(sc.pos))
            /\ tokenError' = errorReturn("Unexpected character '.' in number",
                                         Ch.dot, sc.pos.line, sc.pos.column)
            /\ pos' = sc.pos
            /\ pc' = "tokenized"
            /\ UNCHANGED src
       ELSE /\ pos' = sc.pos
            /\ tokens' = Append(tokens, mkToken("NUMBER", sc.value, pos',
                                                pos.current, pos.column))
            /\ UNCHANGED <<src, tokenError, pc>>

LexIdentifier ==
    /\ Lexing
    /\ IsDefaultCase(cur) /\ ~isDigit(cur) /\ isAlpha(cur)
    /\ LET sc == scanIdentifier(src, pos, <<>>) IN
       /\ pos' = sc.pos
       /\ tokens' = Append(tokens, mkToken(keywords(sc.value), sc.value, pos',
                                           pos.current, pos.column))
    /\ UNCHANGED <<src, tokenError, pc>>

LexUnexpected ==
    /\ Lexing
    /\ IsDefaultCase(cur) /\ ~isDigit(cur) /\ ~isAlpha(cur)
    /\ LexReturnError(errorReturn("Unexpected character", cur,
                                  pos.line, pos.column))

LexEnd ==
    /\ pc = "tokenize"
    /\ isEndOfFile(peek(src, pos.current))
    /\ tokens' = Append(tokens, eofToken(pos))
    /\ tokenError' = Null
    /\ pc' = "tokenized"
    /\ UNCHANGED <<src, pos>>

tokenizeStep ==
    \/ LexWhitespace \/ LexSingle \/ LexString \/ LexCompare
    \/ LexAssignOrNot \/ LexMinus \/ LexNumber \/ LexIdentifier
    \/ LexUnexpected \/ LexEnd


(***************************************************************************)
(* The back-end: compile, _compile, compileStatement, compileExpression.   *)
(* Code is a sequence of instructions [op, arg]; a thrown exception is the *)
(* field `error` of the context, and every operation on a context that     *)
(* carries an exception leaves it as it is (the exception propagates).     *)
(***************************************************************************)
MAX_ITERATIONS == 10000

Ins(op, arg) == <<[op |-> op, arg |-> arg]>>

CompilerError(message, name, line, column, tokenLength) ==
    [class |-> "CompilerError", message |-> message, name |-> name,
     line |-> line, column |-> column, tokenLength |-> tokenLength]
\* new Error(message): an exception that is not a CompilerError
InternalError(message) ==
    [class |-> "Error", message |-> message, name |-> "", line |-> 0,
     column |-> 0, tokenLength |-> 0]

Failed(c) == ~IsNull(c.error)
Throw(c, err) == [c |-> [c EXCEPT !.error = err], code |-> <<>>]
Emit(c, code) == [c |-> c, code |-> code]
\* `const x = e; rest`: the value of e, computed once, handed to the rest
Let(e, Rest(_)) == Rest(e)

\* ./compiler/functions
importFunctions == <<"print", "println">>
definedFunctions ==
    <<"main", "box_nil", "box_bool", "box_number", "box_string",
      "unbox_number", "is_string", "is_bool", "is_number", "is_nil",
      "is_truthy", "to_number", "concat", "mod", "math_pow">>

IndexOfName(seq, name) ==
    IF \E i \in 1..Len(seq) : seq[i] = name
    THEN CHOOSE i \in 1..Len(seq) : seq[i] = name /\ \A j \in 1..(i - 1) : seq[j] # name
    ELSE 0
UserNames(c) == [i \in 1..Len(c.userDefinedFunctions) |-> c.userDefinedFunctions[i].name]

\* func()[name]: the index of a function in the concatenated index space
func(c, name) ==
    IF IndexOfName(importFunctions, name) > 0
    THEN IndexOfName(importFunctions, name) - 1
    ELSE IF IndexOfName(definedFunctions, name) > 0
    THEN Len(importFunctions) + IndexOfName(definedFunctions, name) - 1
    ELSE Len(importFunctions) + Len(definedFunctions)
         + IndexOfName(UserNames(c), name) - 1
call(c, name) == Ins("call", func(c, name))

helperBodies ==
    [i \in 1..(Len(definedFunctions) - 1) |->
        [name |-> definedFunctions[i + 1], body |-> Ins("helper", i)]]
resetFunctionBodies(c) ==
    IF Failed(c) THEN c ELSE [c EXCEPT !.functionBodies = helperBodies]
addFunctionBody(c, name, body) ==
    IF Failed(c) THEN c
    ELSE IF \E i \in 1..Len(c.functionBodies) : c.functionBodies[i].name = name
    THEN [c EXCEPT !.functionBodies =
            [i \in 1..Len(c.functionBodies) |->
                IF c.functionBodies[i].name = name
                THEN [name |-> name, body |-> body]
                ELSE c.functionBodies[i]]]
    ELSE [c EXCEPT !.functionBodies =
            Append(c.functionBodies, [name |-> name, body |-> body])]
functionBody(c, name) ==
    LET i == CHOOSE i \in 1..Len(c.functionBodies) : c.functionBodies[i].name = name
    IN  c.functionBodies[i].body
clearUserDefinedFunctions(c) ==
    IF Failed(c) THEN c ELSE [c EXCEPT !.userDefinedFunctions = <<>>]
addUserDefinedFunction(c, name, nparams) ==
    IF Failed(c) THEN c
    ELSE [c EXCEPT !.userDefinedFunctions =
            Append(c.userDefinedFunctions,
                   [name |-> name, params |-> nparams, results |-> 1])]
getFunctionReturnCount(c, name) == 1

\* ./compiler/state
clearScopes(c) == IF Failed(c) THEN c ELSE [c EXCEPT !.scopes = << <<>> >>]
setScopes(c, s) == IF Failed(c) THEN c ELSE [c EXCEPT !.scopes = s]
setLocalVarsIndex(c, n) ==
    IF Failed(c) THEN c ELSE [c EXCEPT !.localVarsIndex = n]
enterScope(c) ==
    IF Failed(c) THEN c ELSE [c EXCEPT !.scopes = Append(c.scopes, <<>>)]
\* an exitScope that hands the slots of the scope it drops out again
exitScopeReleasingSlots(c) ==
    IF Failed(c) THEN c
    ELSE [c EXCEPT !.scopes = SubSeq(c.scopes, 1, Len(c.scopes) - 1),
                   !.localVarsIndex =
                       @ - Len(c.scopes[Len(c.scopes)])]
exitScope(c) ==
    IF Failed(c) THEN c
    ELSE [c EXCEPT !.scopes = SubSeq(c.scopes, 1, Len(c.scopes) - 1)]
consumeScratchIndex(c) ==
    [c |-> IF Failed(c) THEN c
           ELSE [c EXCEPT !.localVarsIndex = c.localVarsIndex + 1],
     index |-> c.localVarsIndex]

InScope(scope, name) == \E i \in 1..Len(scope) : scope[i].name = name
Bound(scopes, name) == \E k \in 1..Len(scopes) : InScope(scopes[k], name)
\* getVar(name): innermost-out search; found = FALSE is `undefined`
getVar(c, name) ==
    IF Bound(c.scopes, name)
    THEN LET k == CHOOSE k \in 1..Len(c.scopes) :
                     /\ InScope(c.scopes[k], name)
                     /\ \A j \in (k + 1)..Len(c.scopes) :
                            ~InScope(c.scopes[j], name)
             scope == c.scopes[k]
             i == CHOOSE i \in 1..Len(scope) :
                     /\ scope[i].name = name
                     /\ \A j \in (i + 1)..Len(scope) : scope[j].name # name
         IN  [found |-> TRUE, index |-> scope[i].index]
    ELSE [found |-> FALSE, index |-> 0]
\* a declareVar that never looks for an existing binding
declareVarAlwaysNew(c, name, isLocal) ==
    IF Failed(c) THEN [c |-> c, index |-> 0]
    ELSE [c |-> [c EXCEPT
                   !.scopes[Len(c.scopes)] =
                       Append(@, [name |-> name, index |-> c.localVarsIndex]),
                   !.localVarsIndex = c.localVarsIndex + 1],
          index |-> c.localVarsIndex]
\* declareVar(name, isLocal)
declareVar(c, name, isLocal) ==
    IF Failed(c) THEN [c |-> c, index |-> 0]
    ELSE IF ~isLocal /\ Bound(c.scopes, name)
    THEN [c |-> c, index |-> getVar(c, name).index]
    ELSE [c |-> [c EXCEPT
                   !.scopes[Len(c.scopes)] =
                       Append(@, [name |-> name, index |-> c.localVarsIndex]),
                   !.localVarsIndex = c.localVarsIndex + 1],
          index |-> c.localVarsIndex]
\* getLocalDecls(): count x i32 for every slot beyond the parameters
getLocalDecls(c, nparams) == Ins("locals", c.localVarsIndex - nparams)

\* new TextEncoder().encode(s): the UTF-8 bytes of a string, here a sequence
\* of code points
\* an encoder that writes one byte for every code point
encodeOneBytePerCodePoint(s) == [i \in 1..Len(s) |-> s[i] % 256]

RECURSIVE encode(_)
encode(s) ==
    IF s = <<>> THEN <<>>
    ELSE LET cp == Head(s) IN
         (IF cp < 128 THEN <<cp>>
          ELSE IF cp < 2048 THEN <<192 + (cp \div 64), 128 + (cp % 64)>>
          ELSE IF cp < 65536
          THEN <<224 + (cp \div 4096), 128 + ((cp \div 64) % 64), 128 + (cp % 64)>>
          ELSE <<240 + (cp \div 262144), 128 + ((cp \div 4096) % 64),
                 128 + ((cp \div 64) % 64), 128 + (cp % 64)>>)
         \o encode(Tail(s))

\* createStringTable(): getOffset interns, getBytes is the blob
createStringTable == [entries |-> <<>>, bytes |-> <<>>]
getOffset(c, s) ==
    IF Failed(c) THEN [c |-> c, offset |-> 0]
    ELSE IF \E i \in 1..Len(c.strings.entries) : c.strings.entries[i].str = s
    THEN [c |-> c,
          offset |-> (LET i == CHOOSE i \in 1..Len(c.strings.entries) :
                                  c.strings.entries[i].str = s
                      IN  c.strings.entries[i].offset)]
    ELSE [c |-> [c EXCEPT
                   !.strings.entries =
                       Append(@, [str |-> s, offset |-> Len(c.strings.bytes)]),
                   !.strings.bytes = @ \o encode(s)],
          offset |-> Len(c.strings.bytes)]

\* ./compiler/wasm: nativeBinOps[operator], null for the operators that
\* have no f64 opcode
nativeBinOps(op) ==
    CASE op = "+" -> "f64.add"
      [] op = "-" -> "f64.sub"
      [] op = "*" -> "f64.mul"
      [] op = "/" -> "f64.div"
      [] op = "==" -> "f64.eq"
      [] op = "~=" -> "f64.ne"
      [] op = "<" -> "f64.lt"
      [] op = "<=" -> "f64.le"
      [] op = ">" -> "f64.gt"
      [] op = ">=" -> "f64.ge"
      [] OTHER -> "null"
comparisonOps == {"==", "~=", ">", ">=", "<", "<="}


RECURSIVE compileExpression(_, _), compileArgs(_, _, _, _),
          compileStatement(_, _), compileStatements(_, _, _, _),
          compileElifs(_, _, _, _), compileElifsForward(_, _, _, _)

\* args.flatMap((arg) => compileExpression(arg, strings))
compileArgs(c, args, i, acc) ==
    IF i > Len(args) THEN Emit(c, acc)
    ELSE Let(compileExpression(c, args[i]), LAMBDA r :
             compileArgs(r.c, args, i + 1, acc \o r.code))

\* the code of `left and right` with the left value kept in a scratch local,
\* as a careless lowering would emit it: the skipped arm evaluates left again
andCodeReevaluating(c, left, right, scratch) ==
    left \o Ins("local.set", scratch) \o Ins("local.get", scratch)
    \o call(c, "is_truthy") \o Ins("if", 1)
      \o right
    \o Ins("else", 0)
      \o left
    \o Ins("end", 0)

\* the code of `left and right`
andCode(c, left, right, scratch) ==
    left \o Ins("local.set", scratch) \o Ins("local.get", scratch)
    \o call(c, "is_truthy") \o Ins("if", 1)
      \o right
    \o Ins("else", 0)
      \o Ins("local.get", scratch)
    \o Ins("end", 0)

\* a lowering of `left or right` that reads the scratch local once more than
\* it consumes
orCodeKeepingLeft(c, left, right, scratch) ==
    left \o Ins("local.set", scratch) \o Ins("local.get", scratch)
    \o Ins("local.get", scratch)
    \o call(c, "is_truthy") \o Ins("if", 1)
      \o Ins("local.get", scratch)
    \o Ins("else", 0)
      \o right
    \o Ins("end", 0)

\* the code of `left or right`
orCode(c, left, right, scratch) ==
    left \o Ins("local.set", scratch) \o Ins("local.get", scratch)
    \o call(c, "is_truthy") \o Ins("if", 1)
      \o Ins("local.get", scratch)
    \o Ins("else", 0)
      \o right
    \o Ins("end", 0)

compileBinary(c, expr) ==
    Let(compileExpression(c, expr.left), LAMBDA l :
    Let(compileExpression(l.c, expr.right), LAMBDA r :
    LET left == l.code
        right == r.code
        c2 == r.c
        nativeOp == nativeBinOps(expr.operator)
        unboxed == left \o call(c2, "unbox_number")
                   \o right \o call(c2, "unbox_number")
    IN
    IF Failed(c2) THEN Emit(c2, <<>>)
    ELSE IF nativeOp # "null" /\ expr.operator = "+" THEN
        Emit(c2,
             left \o call(c2, "is_string") \o right \o call(c2, "is_string")
             \o Ins("i32.or", 0) \o Ins("if", 1)
               \o left \o right \o call(c2, "concat")
             \o Ins("else", 0)
               \o left \o call(c2, "is_bool") \o right \o call(c2, "is_bool")
               \o Ins("i32.or", 0) \o Ins("if", 1)
                 \o left \o call(c2, "to_number") \o call(c2, "unbox_number")
                 \o right \o call(c2, "to_number") \o call(c2, "unbox_number")
                 \o Ins("f64.add", 0) \o call(c2, "box_number")
               \o Ins("else", 0)
                 \o unboxed \o Ins("f64.add", 0) \o call(c2, "box_number")
               \o Ins("end", 0)
             \o Ins("end", 0))
    ELSE IF nativeOp # "null" THEN
        Emit(c2, unboxed \o Ins(nativeOp, 0)
                 \o (IF expr.operator \in comparisonOps
                     THEN call(c2, "box_bool") ELSE call(c2, "box_number")))
    ELSE IF expr.operator = "%" THEN
        Emit(c2, unboxed \o call(c2, "mod") \o call(c2, "box_number"))
    ELSE IF expr.operator = "^" THEN
        Emit(c2, unboxed \o call(c2, "math_pow") \o call(c2, "box_number"))
    ELSE IF expr.operator = "and" THEN
        LET s == consumeScratchIndex(c2) IN
        Emit(s.c, andCode(c2, left, right, s.index))
    ELSE IF expr.operator = "or" THEN
        LET s == consumeScratchIndex(c2) IN
        Emit(s.c, orCode(c2, left, right, s.index))
    ELSE Throw(c2, InternalError("Unsupported binary operator"))))

compileUnary(c, expr) ==
    IF expr.operator = "+" THEN compileExpression(c, expr.argument)
    ELSE IF expr.operator = "-" THEN
        IF expr.argument.type = "NumberLiteral"
        THEN Emit(c, Ins("f64.const", 0 - expr.argument.value)
                     \o call(c, "box_number"))
        ELSE Let(compileExpression(c, expr.argument), LAMBDA a :
                 IF Failed(a.c) THEN a
                 ELSE Emit(a.c, a.code \o call(c, "unbox_number")
                                \o Ins("f64.neg", 0) \o call(c, "box_number")))
    ELSE IF expr.operator = "~" THEN
        Let(compileExpression(c, expr.argument), LAMBDA a :
            IF Failed(a.c) THEN a
            ELSE Emit(a.c, a.code \o call(c, "unbox_number") \o Ins("f64.const", 0)
                           \o Ins("f64.eq", 0) \o call(c, "box_bool")))
    ELSE Throw(c, InternalError("Unsupported unary operator"))

\* a call lowering that only rejects calls with too few arguments
compileCallTooFewOnly(c, expr) ==
    LET name == expr.name
        args == expr.args
        found == IndexOfName(UserNames(c), name.name) > 0
        f == c.userDefinedFunctions[IndexOfName(UserNames(c), name.name)]
    IN
    IF name.name = "is_string" THEN
        IF Len(args) # 1
        THEN Throw(c, CompilerError("is_string expects 1 argument", name.name,
                                    expr.loc.start.line, expr.loc.start.column,
                                    Len(name.name)))
        ELSE Let(compileArgs(c, args, 1, <<>>), LAMBDA a :
                 IF Failed(a.c) THEN a
                 ELSE Emit(a.c, a.code \o call(c, "is_string") \o call(c, "box_bool")))
    ELSE IF ~found THEN
        Throw(c, CompilerError("Function is not defined", name.name,
                               name.loc.start.line, name.loc.start.column,
                               Len(name.name)))
    ELSE IF f.params > Len(args) THEN
        Throw(c, CompilerError("Function expects a different number of arguments",
                               name.name, name.loc.start.line,
                               name.loc.start.column, Len(name.name)))
    ELSE Let(compileArgs(c, args, 1, <<>>), LAMBDA a :
             IF Failed(a.c) THEN a
             ELSE Emit(a.c, a.code \o call(a.c, name.name)))

compileCall(c, expr) ==
    LET name == expr.name
        args == expr.args
        found == IndexOfName(UserNames(c), name.name) > 0
        f == c.userDefinedFunctions[IndexOfName(UserNames(c), name.name)]
    IN
    IF name.name = "is_string" THEN
        IF Len(args) # 1
        THEN Throw(c, CompilerError("is_string expects 1 argument", name.name,
                                    expr.loc.start.line, expr.loc.start.column,
                                    Len(name.name)))
        ELSE Let(compileArgs(c, args, 1, <<>>), LAMBDA a :
                 IF Failed(a.c) THEN a
                 ELSE Emit(a.c, a.code \o call(c, "is_string") \o call(c, "box_bool")))
    ELSE IF ~found THEN
        Throw(c, CompilerError("Function is not defined", name.name,
                               name.loc.start.line, name.loc.start.column,
                               Len(name.name)))
    ELSE IF f.params # Len(args) THEN
        Throw(c, CompilerError("Function expects a different number of arguments",
                               name.name, name.loc.start.line,
                               name.loc.start.column, Len(name.name)))
    ELSE Let(compileArgs(c, args, 1, <<>>), LAMBDA a :
             IF Failed(a.c) THEN a
             ELSE Emit(a.c, a.code \o call(a.c, name.name)))

compileExpression(c, expr) ==
    IF Failed(c) THEN Emit(c, <<>>)
    ELSE CASE expr.type = "StringLiteral" ->
            LET o == getOffset(c, expr.value) IN
            Emit(o.c, Ins("i32.const", o.offset)
                      \o Ins("i32.const", Len(encode(expr.value)))
                      \o call(c, "box_string"))
      [] expr.type = "NumberLiteral" ->
            Emit(c, Ins("f64.const", expr.value) \o call(c, "box_number"))
      [] expr.type = "BooleanLiteral" ->
            Emit(c, Ins("i32.const", IF expr.value THEN 1 ELSE 0)
                    \o call(c, "box_bool"))
      [] expr.type = "Identifier" ->
            LET variable == getVar(c, expr.name) IN
            IF ~variable.found
            THEN Throw(c, CompilerError("Variable is not declared", expr.name,
                                        expr.loc.start.line, expr.loc.start.column,
                                        Len(expr.name)))
            ELSE Emit(c, Ins("local.get", variable.index))
      [] expr.type = "GroupingExpression" -> compileExpression(c, expr.expression)
      [] expr.type = "BinaryExpression" -> compileBinary(c, expr)
      [] expr.type = "UnaryExpression" -> compileUnary(c, expr)
      [] expr.type = "FunctionCallExpression" -> compileCall(c, expr)
      [] OTHER -> Throw(c, InternalError("Something went wrong"))

compileStatements(c, statements, i, acc) ==
    IF i > Len(statements) \/ Failed(c) THEN Emit(c, acc)
    ELSE Let(compileStatement(c, statements[i]), LAMBDA r :
             compileStatements(r.c, statements, i + 1, acc \o r.code))

\* a loop over stmt.elifBranches that runs forward: the last elif becomes
\* the outermost one
compileElifsForward(c, elifs, i, elseBlock) ==
    IF i < 1 \/ Failed(c) THEN Emit(c, elseBlock)
    ELSE Let(compileExpression(c, elifs[Len(elifs) - i + 1].condition), LAMBDA cond :
         Let(compileStatements(enterScope(cond.c), elifs[Len(elifs) - i + 1].body,
                               1, <<>>), LAMBDA body :
             compileElifsForward(exitScope(body.c), elifs, i - 1,
                 cond.code \o call(c, "is_truthy") \o Ins("if", 0)
                 \o body.code \o Ins("else", 0) \o elseBlock \o Ins("end", 0))))

\* the reverse loop over stmt.elifBranches, nesting each in the next else arm
compileElifs(c, elifs, i, elseBlock) ==
    IF i < 1 \/ Failed(c) THEN Emit(c, elseBlock)
    ELSE Let(compileExpression(c, elifs[i].condition), LAMBDA cond :
         Let(compileStatements(enterScope(cond.c), elifs[i].body, 1, <<>>), LAMBDA body :
             compileElifs(exitScope(body.c), elifs, i - 1,
                 cond.code \o call(c, "is_truthy") \o Ins("if", 0)
                 \o body.code \o Ins("else", 0) \o elseBlock \o Ins("end", 0))))

\* a guard whose comparison is reversed: <= where the code compares with >=
loopGuardReversed(counterIndex) ==
    Ins("local.get", counterIndex) \o Ins("i32.const", MAX_ITERATIONS)
    \o Ins("i32.le_u", 0) \o Ins("if", 0) \o Ins("unreachable", 0) \o Ins("end", 0)
    \o Ins("local.get", counterIndex) \o Ins("i32.const", 1) \o Ins("i32.add", 0)
    \o Ins("local.set", counterIndex)

\* the guard emitted at the head of every loop
loopGuard(counterIndex) ==
    Ins("local.get", counterIndex) \o Ins("i32.const", MAX_ITERATIONS)
    \o Ins("i32.ge_u", 0) \o Ins("if", 0) \o Ins("unreachable", 0) \o Ins("end", 0)
    \o Ins("local.get", counterIndex) \o Ins("i32.const", 1) \o Ins("i32.add", 0)
    \o Ins("local.set", counterIndex)

compileIf(c, stmt) ==
    Let(compileExpression(c, stmt.condition), LAMBDA condition :
    Let(compileStatements(enterScope(condition.c), stmt.thenBranch, 1, <<>>),
        LAMBDA thenBranch :
    Let(IF stmt.hasElse
        THEN compileStatements(enterScope(exitScope(thenBranch.c)),
                               stmt.elseBranch, 1, <<>>)
        ELSE Emit(exitScope(thenBranch.c), <<>>), LAMBDA els :
    Let(compileElifs(IF stmt.hasElse THEN exitScope(els.c) ELSE els.c,
                     stmt.elifBranches, Len(stmt.elifBranches), els.code),
        LAMBDA chain :
    LET bytes == condition.code \o call(c, "is_truthy") \o Ins("if", 0)
                 \o thenBranch.code
    IN  IF Failed(chain.c) THEN Emit(chain.c, <<>>)
        ELSE Emit(chain.c, bytes \o Ins("else", 0) \o chain.code \o Ins("end", 0))))))

compileWhile(c, stmt) ==
    Let(compileStatements(enterScope(enterScope(c)), stmt.body, 1, <<>>), LAMBDA body :
    Let(compileExpression(exitScope(body.c), stmt.condition), LAMBDA condition :
    LET s == consumeScratchIndex(exitScope(condition.c))
        counterIndex == s.index
    IN  IF Failed(s.c) THEN Emit(s.c, <<>>)
        ELSE Emit(s.c,
                Ins("i32.const", 0) \o Ins("local.set", counterIndex)
                \o Ins("block", 0) \o Ins("loop", 0)
                \o loopGuard(counterIndex)
                \o condition.code \o call(c, "is_truthy") \o Ins("i32.eqz", 0)
                \o Ins("br_if", 1)
                \o body.code
                \o Ins("br", 0)
                \o Ins("end", 0) \o Ins("end", 0))))

\* an exit test that stops one value early: >= and <= for > and <
forExitTestExclusive(c, isDescending, unboxVar, cond) ==
    Ins("local.get", isDescending) \o Ins("if", 1)
      \o unboxVar \o cond \o call(c, "unbox_number") \o Ins("f64.le", 0)
    \o Ins("else", 0)
      \o unboxVar \o cond \o call(c, "unbox_number") \o Ins("f64.ge", 0)
    \o Ins("end", 0)
    \o Ins("br_if", 1)

\* the exit test at the head of a for loop: leave when i has crossed stop
forExitTest(c, isDescending, unboxVar, cond) ==
    Ins("local.get", isDescending) \o Ins("if", 1)
      \o unboxVar \o cond \o call(c, "unbox_number") \o Ins("f64.lt", 0)
    \o Ins("else", 0)
      \o unboxVar \o cond \o call(c, "unbox_number") \o Ins("f64.gt", 0)
    \o Ins("end", 0)
    \o Ins("br_if", 1)

compileFor(c, stmt) ==
    Let(compileStatement(enterScope(c), stmt.assignment), LAMBDA init :
    LET loopVar == getVar(init.c, stmt.assignment.identifier.name) IN
    IF Failed(init.c) THEN Emit(init.c, <<>>)
    ELSE IF ~loopVar.found
    THEN Throw(init.c, CompilerError("Variable is not declared",
                    stmt.assignment.identifier.name,
                    stmt.assignment.identifier.loc.start.line,
                    stmt.assignment.identifier.loc.start.column,
                    Len(stmt.assignment.identifier.name)))
    ELSE
    Let(compileExpression(enterScope(init.c), stmt.condition), LAMBDA cond :
    Let(IF stmt.hasIncrement
        THEN compileExpression(cond.c, stmt.increment)
        ELSE Emit(cond.c, Ins("f64.const", 1) \o call(c, "box_number")), LAMBDA step :
    Let(compileStatements(step.c, stmt.body, 1, <<>>), LAMBDA loopBody :
    LET d == consumeScratchIndex(exitScope(exitScope(loopBody.c)))
        isDescending == d.index
        k == consumeScratchIndex(d.c)
        counterIndex == k.index
        unboxVar == Ins("local.get", loopVar.index) \o call(c, "unbox_number")
    IN  IF Failed(k.c) THEN Emit(k.c, <<>>)
        ELSE Emit(k.c,
                Ins("i32.const", 0) \o Ins("local.set", counterIndex)
                \o init.code
                \o step.code \o call(c, "unbox_number") \o Ins("f64.const", 0)
                \o Ins("f64.lt", 0) \o Ins("local.set", isDescending)
                \o Ins("block", 0) \o Ins("loop", 0)
                \o loopGuard(counterIndex)
                \o forExitTest(c, isDescending, unboxVar, cond.code)
                \o loopBody.code
                \o unboxVar \o step.code \o call(c, "unbox_number")
                \o Ins("f64.add", 0) \o call(c, "box_number")
                \o Ins("local.set", loopVar.index)
                \o Ins("br", 0)
                \o Ins("end", 0) \o Ins("end", 0))))))

RECURSIVE declareParams(_, _, _)
\* for (const param of params) declareVar(param.name, true)
declareParams(c, params, i) ==
    IF i > Len(params) THEN c
    ELSE declareParams(declareVar(c, params[i].name, TRUE).c, params, i + 1)

\* a FunctionDeclStatement case that lowers the body in the scopes of the
\* declaration and on its slot counter
compileFunctionDeclInPlace(c, stmt) ==
    LET name == stmt.name
        params == stmt.params
    IN
    IF IndexOfName(UserNames(c), name.name) > 0
    THEN Throw(c, CompilerError("Function is already defined", name.name,
                                name.loc.start.line, name.loc.start.column,
                                Len(name.name)))
    ELSE
    LET c1 == addUserDefinedFunction(c, name.name, Len(params))
        c2 == declareParams(c1, params, 1)
    IN
    Let(compileStatements(c2, stmt.body, 1, <<>>), LAMBDA body :
    LET bodyBytes == body.code \o call(c1, "box_nil") \o Ins("return", 0)
        localDecls == getLocalDecls(body.c, Len(params))
    IN  Emit(addFunctionBody(body.c, name.name,
                             localDecls \o bodyBytes \o Ins("end", 0)),
             <<>>))

compileFunctionDecl(c, stmt) ==
    LET name == stmt.name
        params == stmt.params
    IN
    IF IndexOfName(UserNames(c), name.name) > 0
    THEN Throw(c, CompilerError("Function is already defined", name.name,
                                name.loc.start.line, name.loc.start.column,
                                Len(name.name)))
    ELSE
    LET c1 == addUserDefinedFunction(c, name.name, Len(params))
        prevIndex == c1.localVarsIndex
        scopesTmp == c1.scopes
        c2 == declareParams(clearScopes(setLocalVarsIndex(c1, 0)), params, 1)
    IN
    Let(compileStatements(c2, stmt.body, 1, <<>>), LAMBDA body :
    LET bodyBytes == body.code \o call(c1, "box_nil") \o Ins("return", 0)
        localDecls == getLocalDecls(body.c, Len(params))
        c3 == setScopes(setLocalVarsIndex(body.c, prevIndex), scopesTmp)
    IN  Emit(addFunctionBody(c3, name.name,
                             localDecls \o bodyBytes \o Ins("end", 0)),
             <<>>))

compileStatement(c, stmt) ==
    IF Failed(c) THEN Emit(c, <<>>)
    ELSE CASE stmt.type = "PrintlnStatement" ->
            Let(compileExpression(c, stmt.expression), LAMBDA e :
                Emit(e.c, e.code \o call(c, "println")))
      [] stmt.type = "PrintStatement" ->
            Let(compileExpression(c, stmt.expression), LAMBDA e :
                Emit(e.c, e.code \o call(c, "print")))
      [] stmt.type \in {"LocalAssignStatement", "AssignStatement"} ->
            Let(compileExpression(c, stmt.expression), LAMBDA e :
                LET varInfo == declareVar(e.c, stmt.identifier.name,
                                          stmt.type = "LocalAssignStatement")
                IN  Emit(varInfo.c, e.code \o Ins("local.set", varInfo.index)))
      [] stmt.type = "IfStatement" -> compileIf(c, stmt)
      [] stmt.type = "WhileStatement" -> compileWhile(c, stmt)
      [] stmt.type = "ForStatement" -> compileFor(c, stmt)
      [] stmt.type = "FunctionDeclStatement" -> compileFunctionDecl(c, stmt)
      [] stmt.type = "ReturnStatement" ->
            Let(compileExpression(c, stmt.expression), LAMBDA e :
                Emit(e.c, e.code \o Ins("return", 0)))
      [] stmt.type = "ExpressionStatement" ->
            Let(compileExpression(c, stmt.expression), LAMBDA e :
                IF stmt.expression.type = "FunctionCallExpression"
                THEN IF getFunctionReturnCount(e.c, stmt.expression.name.name) > 0
                     THEN Emit(e.c, e.code \o Ins("drop", 0)) ELSE e
                ELSE Emit(e.c, e.code \o Ins("drop", 0)))
      [] OTHER -> Throw(c, InternalError("Something went wrong"))


\* the signature of every import and runtime helper
functionType(name) ==
    CASE name \in {"print", "println"} -> [params |-> <<"i32">>, results |-> <<>>]
      [] name = "main" -> [params |-> <<>>, results |-> <<>>]
      [] name = "box_nil" -> [params |-> <<>>, results |-> <<"i32">>]
      [] name = "box_number" -> [params |-> <<"f64">>, results |-> <<"i32">>]
      [] name \in {"box_string", "concat"} ->
            [params |-> <<"i32", "i32">>, results |-> <<"i32">>]
      [] name = "unbox_number" -> [params |-> <<"i32">>, results |-> <<"f64">>]
      [] name \in {"mod", "math_pow"} ->
            [params |-> <<"f64", "f64">>, results |-> <<"f64">>]
      [] OTHER -> [params |-> <<"i32">>, results |-> <<"i32">>]
userFunctionType(f) ==
    [params |-> [i \in 1..f.params |-> "i32"], results |-> <<"i32">>]

mainFuncBody(c, a) ==
    Let(compileStatements(c, a.body, 1, <<>>), LAMBDA instructions :
        Emit(instructions.c,
             getLocalDecls(instructions.c, 0) \o instructions.code \o Ins("end", 0)))

\* the sections of the module in the order they are concatenated
assemble(c) ==
    LET types == [i \in 1..Len(importFunctions) |-> functionType(importFunctions[i])]
                 \o [i \in 1..Len(definedFunctions) |-> functionType(definedFunctions[i])]
                 \o [i \in 1..Len(c.userDefinedFunctions) |->
                        userFunctionType(c.userDefinedFunctions[i])]
    IN
    << [id |-> 0, payload |-> <<0, 97, 115, 109, 1, 0, 0, 0>>],
       [id |-> 1, payload |-> types],
       [id |-> 2, payload |-> importFunctions],
       [id |-> 3, payload |-> definedFunctions \o UserNames(c)],
       [id |-> 5, payload |-> <<1, 0, 16>>],
       [id |-> 6, payload |-> <<Len(c.strings.bytes) + 1>>],
       [id |-> 7, payload |-> <<func(c, "main")>>],
       [id |-> 10, payload |->
            [i \in 1..Len(definedFunctions) |->
                functionBody(c, definedFunctions[i])]
            \o [i \in 1..Len(c.userDefinedFunctions) |->
                functionBody(c, c.userDefinedFunctions[i].name)]],
       [id |-> 11, payload |-> <<c.strings.bytes>>] >>

\* _compile without the calls that clear the scopes and the slot counter
compileInnerKeepingLocals(c, a) ==
    Let(mainFuncBody(resetFunctionBodies(clearUserDefinedFunctions(c)), a),
        LAMBDA mainFunc :
    LET c2 == addFunctionBody(mainFunc.c, "main", mainFunc.code)
    IN  IF Failed(c2) THEN [c |-> c2, bytes |-> <<>>]
        ELSE [c |-> c2, bytes |-> assemble(c2)])

\* _compile: reset the module-level state, lower the program, build the module
compileInner(c, a) ==
    Let(mainFuncBody(resetFunctionBodies(clearUserDefinedFunctions(
                         setLocalVarsIndex(clearScopes(c), 0))), a),
        LAMBDA mainFunc :
    LET c2 == addFunctionBody(mainFunc.c, "main", mainFunc.code)
    IN  IF Failed(c2) THEN [c |-> c2, bytes |-> <<>>]
        ELSE [c |-> c2, bytes |-> assemble(c2)])

IsProgram(a) == "type" \in DOMAIN a /\ a.type = "Program"

\* compile(ast): result and the module-level state it leaves behind
compile(m, a) ==
    LET c0 == [scopes |-> m.scopes, localVarsIndex |-> m.localVarsIndex,
               userDefinedFunctions |-> m.userDefinedFunctions,
               functionBodies |-> m.functionBodies,
               strings |-> createStringTable, error |-> Null]
    IN
    Let(IF ~IsProgram(a)
        THEN [c |-> [c0 EXCEPT !.error = InternalError("Invalid AST")],
              bytes |-> <<>>]
        ELSE compileInner(c0, a), LAMBDA r :
        [res |-> [bytes |-> [class |-> "Uint8Array", data |-> r.bytes],
                  error |-> IF r.c.error.class = "CompilerError"
                            THEN r.c.error ELSE Null,
                  meta |-> [strings |-> [class |-> "Uint8Array",
                                         data |-> r.c.strings.bytes]]],
         m |-> [scopes |-> r.c.scopes, localVarsIndex |-> r.c.localVarsIndex,
                userDefinedFunctions |-> r.c.userDefinedFunctions,
                functionBodies |-> r.c.functionBodies],
         thrown |-> r.c.error])

\* the module-level state when the compiler module is loaded
initialState ==
    [scopes |-> << <<>> >>, localVarsIndex |-> 0, userDefinedFunctions |-> <<>>,
     functionBodies |-> helperBodies]


(***************************************************************************)
(* AST nodes, with the fields the back-end reads.                          *)
(***************************************************************************)
Loc(line, column) == [start |-> [line |-> line, column |-> column]]
Id(name, line, column) ==
    [type |-> "Identifier", name |-> name, loc |-> Loc(line, column)]
Num(v) == [type |-> "NumberLiteral", value |-> v]
Str(v) == [type |-> "StringLiteral", value |-> v]
Bool(v) == [type |-> "BooleanLiteral", value |-> v]
Bin(op, l, r) == [type |-> "BinaryExpression", operator |-> op, left |-> l, right |-> r]
Un(op, a) == [type |-> "UnaryExpression", operator |-> op, argument |-> a]
CallExpr(name, line, column, args) ==
    [type |-> "FunctionCallExpression", name |-> Id(name, line, column),
     args |-> args, loc |-> Loc(line, column)]
Output(e) == [type |-> "PrintStatement", expression |-> e]
OutputLn(e) == [type |-> "PrintlnStatement", expression |-> e]
LocalAssign(name, line, column, e) ==
    [type |-> "LocalAssignStatement", identifier |-> Id(name, line, column),
     expression |-> e]
Assign(name, line, column, e) ==
    [type |-> "AssignStatement", identifier |-> Id(name, line, column),
     expression |-> e]
ExprStmt(e) == [type |-> "ExpressionStatement", expression |-> e]
Ret(e) == [type |-> "ReturnStatement", expression |-> e]
While(cond, body) == [type |-> "WhileStatement", condition |-> cond, body |-> body]
If(cond, thenBranch, elifs, hasElse, elseBranch) ==
    [type |-> "IfStatement", condition |-> cond, thenBranch |-> thenBranch,
     elifBranches |-> elifs, hasElse |-> hasElse, elseBranch |-> elseBranch]
For(assignment, stop, hasIncrement, increment, body) ==
    [type |-> "ForStatement", assignment |-> assignment, condition |-> stop,
     hasIncrement |-> hasIncrement, increment |-> increment, body |-> body]
FuncDecl(name, line, column, params, body) ==
    [type |-> "FunctionDeclStatement", name |-> Id(name, line, column),
     params |-> params, body |-> body]
Program(body) == [type |-> "Program", body |-> body]

(***************************************************************************)
(* The statements programs are built from.  StmtAt(k, line) is statement k *)
(* written on the given line; the column of a name is fixed per statement. *)
(***************************************************************************)
StmtAt(k, line) ==
    CASE k = 1 -> LocalAssign("x", line, 1, Num(1))
      [] k = 2 -> Output(Id("x", line, 7))
      [] k = 3 -> FuncDecl("f", line, 6, <<Id("a", line, 8)>>,
                           <<Ret(Id("a", line, 15))>>)
      [] k = 4 -> FuncDecl("f", line, 6, <<>>, <<OutputLn(Str(<<104, 233>>))>>)
      [] k = 5 -> ExprStmt(CallExpr("f", line, 1, <<Num(1)>>))
      [] k = 6 -> ExprStmt(Un("!", Num(1)))
      [] k = 7 -> OutputLn(CallExpr("is_string", line, 9, <<Str(<<115>>), Num(2)>>))
      [] k = 8 -> OutputLn(CallExpr("is_bool", line, 9, <<Num(2)>>))
      [] OTHER -> While(Id("y", line, 7),
                        <<ExprStmt(CallExpr("f", line, 12, <<>>))>>)
\* the statements of StmtAt
Pool == 1..9

ProgramOf(p) == Program([i \in 1..Len(p) |-> StmtAt(p[i], i)])
ProgramIndices(n) == UNION {[1..k -> Pool] : k \in 0..n}

\* an argument of compile that is not a Program node
InvalidAst == Null

(***************************************************************************)
(* The sources tokenize is run on: up to MaxFrags fragments, concatenated. *)
(***************************************************************************)
Fragments ==
    << <<Ch.dquote>>,
       <<Ch.squote>>,
       <<Ch.backslash, Ch.u, Ch.lbrace, Ch.d1, Ch.d1, Ch.d0, Ch.d0, Ch.d0,
         Ch.d0, Ch.rbrace>>,
       <<Ch.backslash, Ch.dquote>>,
       <<Ch.backslash>>,
       <<Ch.lf>>,
       <<Ch.space>>,
       <<Ch.x>>,
       <<Ch.d1>>,
       <<Ch.dot>>,
       <<Ch.colon, Ch.eq>>,
       <<Ch.eq>>,
       <<Ch.minus, Ch.minus>>,
       <<Ch.minus>>,
       <<Ch.lt>>,
       <<Ch.lparen>>,
       <<Ch.hash>> >>

RECURSIVE Concat(_, _)
Concat(f, i) == IF i > Len(f) THEN <<>> ELSE Fragments[f[i]] \o Concat(f, i + 1)
Sources ==
    {Concat(f, 1) : f \in UNION {[1..k -> 1..Len(Fragments)] : k \in 0..MaxFrags}}

NoRun == [status |-> "off"]

(***************************************************************************)
(* compileFromSource, both definitions.                                    *)
(***************************************************************************)
\* what parse can return: the parser is not part of the model
ParseOutcomes ==
    {[ast |-> <<1, 2>>, error |-> FALSE], [ast |-> <<2>>, error |-> FALSE],
     [ast |-> <<6>>, error |-> FALSE],
     [ast |-> <<>>, error |-> TRUE], [ast |-> <<2>>, error |-> TRUE]}

Init ==
    /\ variant \in {1, 2}
    /\ src \in Sources
    /\ pos = [line |-> 1, column |-> 1, current |-> 0]
    /\ tokens = <<>>
    /\ tokenError = Null
    /\ pc = "tokenize"
    /\ calls = <<"tokenize">>
    /\ ast = Null
    /\ parseError = Null
    /\ cres = Null
    /\ result = Null
    /\ mstate = initialState
    /\ prog = <<>>
    /\ rt = NoRun

Tokenize ==
    /\ tokenizeStep
    /\ UNCHANGED <<variant, calls, ast, parseError, cres, result, mstate, prog, rt>>

ErrorResult(errorType, error) ==
    [bytes |-> Null, strings |-> Null, errorType |-> errorType, error |-> error]

CfsTokenError ==
    /\ pc = "tokenized" /\ variant = 1 /\ ~IsNull(tokenError)
    /\ result' = ErrorResult("TokenError", tokenError)
    /\ pc' = "done"
    /\ UNCHANGED <<lexVars, variant, calls, ast, parseError, cres, mstate, prog, rt>>

CfsParse ==
    /\ pc = "tokenized" /\ (variant = 2 \/ IsNull(tokenError))
    /\ calls' = Append(calls, "parse")
    /\ \E o \in ParseOutcomes :
        /\ prog' = o.ast
        /\ ast' = IF o.error /\ o.ast = <<>> THEN InvalidAst ELSE ProgramOf(o.ast)
        /\ parseError' = IF o.error
                         THEN [class |-> "ParseError", message |-> "Unexpected token"]
                         ELSE Null
    /\ pc' = "parsed"
    /\ UNCHANGED <<lexVars, variant, cres, result, mstate, rt>>

CfsParseError ==
    /\ pc = "parsed" /\ variant = 1 /\ ~IsNull(parseError)
    /\ result' = ErrorResult("ParseError", parseError)
    /\ pc' = "done"
    /\ UNCHANGED <<lexVars, variant, calls, ast, parseError, cres, mstate, prog, rt>>

CfsCompile ==
    /\ pc = "parsed" /\ (variant = 2 \/ IsNull(parseError))
    /\ calls' = Append(calls, "compile")
    /\ \E r \in {compile(mstate, ast)} :
        /\ cres' = r.res
        /\ mstate' = r.m
    /\ pc' = "compiled"
    /\ UNCHANGED <<lexVars, variant, ast, parseError, result, prog, rt>>

CfsCompilerError ==
    /\ pc = "compiled" /\ variant = 1 /\ ~IsNull(cres.error)
    /\ result' = ErrorResult("CompilerError", cres.error)
    /\ pc' = "done"
    /\ UNCHANGED <<lexVars, variant, calls, ast, parseError, cres, mstate, prog, rt>>

CfsReturn ==
    /\ pc = "compiled" /\ (variant = 2 \/ IsNull(cres.error))
    /\ result' = IF variant = 1
                 THEN [bytes |-> cres.bytes, strings |-> cres.meta.strings,
                       errorType |-> "null", error |-> cres.error]
                 ELSE cres
    /\ pc' = "done"
    /\ UNCHANGED <<lexVars, variant, calls, ast, parseError, cres, mstate, prog, rt>>

Next ==
    \/ Tokenize \/ CfsTokenError \/ CfsParse \/ CfsParseError
    \/ CfsCompile \/ CfsCompilerError \/ CfsReturn

Spec == Init /\ [][Next]_vars

(***************************************************************************)
(* What compileFromSource returns.                                         *)
(***************************************************************************)
IsUint8Array(v) == v.class = "Uint8Array"
SuccessShape(r) ==
    /\ r.errorType = "null" /\ IsNull(r.error)
    /\ IsUint8Array(r.bytes) /\ IsUint8Array(r.strings)
FailureShape(r) ==
    /\ r.errorType \in {"TokenError", "ParseError", "CompilerError"}
    /\ r.error.class = r.errorType
    /\ IsNull(r.bytes) /\ IsNull(r.strings)

\* C1: for every source the discriminated-union compileFromSource returns,
\* and what it returns is the success shape or one of the three error shapes
C1_ResultShapes ==
    variant = 1 =>
        /\ pc # "thrown"
        /\ pc = "done" => SuccessShape(result) \/ FailureShape(result)

IsPrefix(s, t) == Len(s) <= Len(t) /\ s = SubSeq(t, 1, Len(s))
HasErrorType(r, errorType) ==
    "errorType" \in DOMAIN r /\ r.errorType = errorType

\* C2: the stages run in the order tokenize, parse, compile; after a token
\* error neither parse nor compile is invoked and the result is the
\* TokenError; after a parse error compile is not invoked and the result is
\* the ParseError; a CompilerError result means neither earlier stage failed
C2_StopsAtFirstError ==
    /\ IsPrefix(calls, <<"tokenize", "parse", "compile">>)
    /\ ~IsNull(tokenError) =>
            /\ calls = <<"tokenize">>
            /\ pc = "done" => HasErrorType(result, "TokenError")
    /\ ~IsNull(parseError) =>
            /\ calls = <<"tokenize", "parse">>
            /\ pc = "done" => HasErrorType(result, "ParseError")
    /\ (pc = "done" /\ HasErrorType(result, "CompilerError")) =>
            IsNull(tokenError) /\ IsNull(parseError)

RECURSIVE BackslashesBefore(_, _)
\* the number of consecutive backslashes that end at position i
BackslashesBefore(s, i) ==
    IF i < 1 THEN 0
    ELSE IF s[i] # Ch.backslash THEN 0 ELSE 1 + BackslashesBefore(s, i - 1)
Escaped(s, i) == BackslashesBefore(s, i - 1) % 2 = 1
\* the source opens a string literal with its first character and no later
\* unescaped occurrence of that quote character closes it
NeverClosed(s) ==
    /\ Len(s) > 0 /\ s[1] \in {Ch.squote, Ch.dquote}
    /\ \A i \in 2..Len(s) : s[i] = s[1] => Escaped(s, i)

\* C3: for a source whose string literal is never closed, tokenize returns a
\* TokenError at the line and column of the opening quote and emits no STRING
\* token, and compileFromSource returns errorType "TokenError", bytes = null
C3_UnterminatedString ==
    NeverClosed(src) =>
        /\ pc # "thrown"
        /\ pc \notin {"tokenize", "thrown"} =>
                /\ tokenError.class = "TokenError"
                /\ tokenError.line = 1 /\ tokenError.column = 1
                /\ \A i \in 1..Len(tokens) : tokens[i].type # "STRING"
        /\ (variant = 1 /\ pc = "done") =>
                result.errorType = "TokenError" /\ IsNull(result.bytes)

(***************************************************************************)
(* compile called directly, several times on the same module-level state.  *)
(***************************************************************************)
InitCompile ==
    /\ variant = 0
    /\ src = <<>>
    /\ pos = [line |-> 1, column |-> 1, current |-> 0]
    /\ tokens = <<>>
    /\ tokenError = Null
    /\ pc = "api"
    /\ calls = <<>>
    /\ ast = Null
    /\ parseError = Null
    /\ cres = Null
    /\ result = Null
    /\ mstate = initialState
    /\ prog = <<>>
    /\ rt = NoRun

CallCompile ==
    /\ pc = "api" /\ Len(calls) < MaxCalls
    /\ \E p \in ProgramIndices(MaxStmts) :
       \E r \in {compile(mstate, ProgramOf(p))} :
        /\ prog' = p
        /\ ast' = ProgramOf(p)
        /\ cres' = r.res
        /\ mstate' = r.m
    /\ calls' = Append(calls, "compile")
    /\ UNCHANGED <<lexVars, variant, pc, parseError, result, rt>>

CallCompileInvalid ==
    /\ pc = "api" /\ Len(calls) < MaxCalls
    /\ prog' = <<>>
    /\ ast' = InvalidAst
    /\ \E r \in {compile(mstate, InvalidAst)} :
        /\ cres' = r.res
        /\ mstate' = r.m
    /\ calls' = Append(calls, "compile")
    /\ UNCHANGED <<lexVars, variant, pc, parseError, result, rt>>

NextCompile == CallCompile \/ CallCompileInvalid

SpecCompile == InitCompile /\ [][NextCompile]_vars

(***************************************************************************)
(* What compile is expected to report for a program built from the         *)
(* statements of StmtAt: the statements are walked in the order of the     *)
(* pass, keeping whether x is declared and with how many parameters f is   *)
(* registered.                                                             *)
(***************************************************************************)
Unregistered == 0 - 1
NoError == [kind |-> "none"]
Expected(kind, name, line, column) ==
    [kind |-> kind, name |-> name, line |-> line, column |-> column,
     length |-> Len(name)]
\* the error of a call of f with nargs arguments at the given place
CallOfF(f, nargs, line, column) ==
    IF f = Unregistered THEN Expected("undefined", "f", line, column)
    ELSE IF f # nargs THEN Expected("arity", "f", line, column)
    ELSE NoError
\* the first error of statement k on the given line; callable is the set of
\* built-in names a program may call
StatementError(k, line, x, f, callable) ==
    CASE k = 1 -> NoError
      [] k = 2 -> IF x THEN NoError ELSE Expected("undeclared", "x", line, 7)
      [] k \in {3, 4} ->
            IF f # Unregistered THEN Expected("duplicate", "f", line, 6)
            ELSE NoError
      [] k = 5 -> CallOfF(f, 1, line, 1)
      [] k = 6 -> [kind |-> "operator"]
      [] k = 7 -> Expected("builtin arity", "is_string", line, 9)
      [] k = 8 -> IF "is_bool" \in callable THEN NoError
                  ELSE Expected("undefined", "is_bool", line, 9)
      [] OTHER -> IF CallOfF(f, 0, line, 12) # NoError
                  THEN CallOfF(f, 0, line, 12)
                  ELSE Expected("undeclared", "y", line, 7)

RECURSIVE Walk(_, _, _, _, _)
\* the first error of the statements p[i..] and the registry at that point
Walk(p, i, x, f, callable) ==
    IF i > Len(p) THEN [err |-> NoError, f |-> f]
    ELSE IF StatementError(p[i], i, x, f, callable) # NoError
    THEN [err |-> StatementError(p[i], i, x, f, callable), f |-> f]
    ELSE Walk(p, i + 1, x \/ p[i] = 1,
              IF p[i] = 3 THEN 1 ELSE IF p[i] = 4 THEN 0 ELSE f, callable)

MessageOf(kind) ==
    CASE kind = "undeclared" -> "Variable is not declared"
      [] kind = "undefined" -> "Function is not defined"
      [] kind = "arity" -> "Function expects a different number of arguments"
      [] kind = "duplicate" -> "Function is already defined"
      [] OTHER -> "is_string expects 1 argument"

\* the error compile returned is the expected one
Reports(e, x) ==
    IF x.kind = "none" THEN IsNull(e)
    ELSE /\ ~IsNull(e)
         /\ x.kind # "operator" =>
                /\ e.message = MessageOf(x.kind) /\ e.name = x.name
                /\ e.line = x.line /\ e.column = x.column
                /\ e.tokenLength = x.length
\* the user-function registry holds f with n parameters, or nothing
RegistryIs(n) ==
    IF n = Unregistered THEN mstate.userDefinedFunctions = <<>>
    ELSE /\ Len(mstate.userDefinedFunctions) = 1
         /\ mstate.userDefinedFunctions[1].name = "f"
         /\ mstate.userDefinedFunctions[1].params = n

Contains(p, k) == \E i \in 1..Len(p) : p[i] = k
Called == calls # <<>>
TypePredicates == {"is_string", "is_bool", "is_number", "is_nil"}

\* C4: compile returns either an error with empty bytes or, when the error
\* is absent, the complete module and the string table
C4_NoPartialOutput ==
    Called =>
        /\ IsUint8Array(cres.meta.strings)
        /\ IF IsNull(cres.error)
           THEN Len(cres.bytes.data) = 9
           ELSE /\ cres.bytes.data = <<>>
                /\ cres.error.class = "CompilerError"
                /\ cres.error.line > 0 /\ cres.error.column > 0
                /\ cres.error.tokenLength > 0

\* C5: the result of compile(a) is the same after any sequence of earlier
\* calls as on the freshly loaded module
C5_Deterministic == Called => cres = compile(initialState, ast).res

\* a declaration and call of f compiled after an earlier call had left f in
\* the registry
C5_Witness ==
    /\ Len(calls) = 2 /\ prog = <<3, 5>> /\ IsNull(cres.error)
    /\ Len(cres.bytes.data) = 9

\* C6: the error reported is the one of the first offending node met by the
\* pass, with its line, column and length, and no later node is lowered
C6_FirstErrorReported ==
    (Called /\ IsProgram(ast)) =>
        /\ Reports(cres.error, Walk(prog, 1, FALSE, Unregistered, {"is_string"}).err)
        /\ RegistryIs(Walk(prog, 1, FALSE, Unregistered, {"is_string"}).f)

\* C7 as stated, every built-in type predicate being a name that can be
\* called: redeclarations, undefined callees and arity mismatches fail, the
\* registry is unchanged by a redeclaration, every other call compiles
C7_AsStated ==
    (Called /\ IsProgram(ast) /\ ~Contains(prog, 6)) =>
        /\ Reports(cres.error, Walk(prog, 1, FALSE, Unregistered, TypePredicates).err)
        /\ RegistryIs(Walk(prog, 1, FALSE, Unregistered, TypePredicates).f)

\* C7 amended: is_string is the only built-in name that can be called
C7_FunctionRegistry ==
    (Called /\ IsProgram(ast) /\ ~Contains(prog, 6)) =>
        /\ Reports(cres.error, Walk(prog, 1, FALSE, Unregistered, {"is_string"}).err)
        /\ RegistryIs(Walk(prog, 1, FALSE, Unregistered, {"is_string"}).f)

\* f() declared without parameters and called with one argument
C7_Witness ==
    /\ Called /\ prog = <<4, 5>>
    /\ ~IsNull(cres.error)
    /\ cres.error.message = "Function expects a different number of arguments"


(***************************************************************************)
(* Execution of a compiled module.  A boxed pointer is represented by the  *)
(* box it points to; raw i32 and f64 values carry their own tag.           *)
(***************************************************************************)
OutCap == 4

Value(tag, val, len) == [tag |-> tag, val |-> val, len |-> len]
I32(n) == Value("i32", n, 0)
F64(n) == Value("f64", n, 0)
BoolToInt(b) == IF b THEN 1 ELSE 0

\* is_truthy: false only for nil and for boolean false
is_truthy(v) == ~(v.tag = "nil" \/ (v.tag = "bool" /\ v.val = 0))

\* the sections of the module under execution
CodeSection == cres.bytes.data[8].payload
CodeOf(fi) == CodeSection[fi - Len(importFunctions) + 1]
IsImport(fi) == fi < Len(importFunctions)
IsHelper(fi) ==
    /\ ~IsImport(fi)
    /\ fi < Len(importFunctions) + Len(definedFunctions)

NewFrame(fi, args) ==
    [fi |-> fi, pc |-> 2, stack |-> <<>>, labels |-> <<>>,
     locals |-> args \o [i \in 1..CodeOf(fi)[1].arg |-> I32(0)]]

\* the change of nesting depth an instruction makes
nesting(ins) ==
    IF ins.op \in {"block", "loop", "if"} THEN 1
    ELSE IF ins.op = "end" THEN 0 - 1 ELSE 0

RECURSIVE firstAtDepth(_, _, _, _, _)
\* the first instruction of code[i..j] with an opcode of ops met at nesting
\* depth 0, when code[i] is at depth d (pos = 0: none), and the change of
\* depth over the instructions scanned; the range is halved at every level
firstAtDepth(code, i, j, ops, d) ==
    IF i = j
    THEN [pos |-> IF d = 0 /\ code[i].op \in ops THEN i ELSE 0,
          net |-> nesting(code[i])]
    ELSE CHOOSE res \in
           UNION {{IF l.pos # 0 THEN l
                   ELSE CHOOSE both \in
                          {[pos |-> r.pos, net |-> l.net + r.net] :
                             r \in {firstAtDepth(code, m + 1, j, ops, d + l.net)}}
                          : TRUE
                   : l \in {firstAtDepth(code, i, m, ops, d)}}
                  : m \in {(i + j) \div 2}} : TRUE

\* where the structured instructions of a function body end: for every
\* block, loop and if its matching end, and for every if its else
JumpTable(code) ==
    [k \in 1..Len(code) |->
        IF code[k].op \in {"block", "loop", "if"}
        THEN [end |-> firstAtDepth(code, k + 1, Len(code), {"end"}, 0).pos,
              els |-> IF code[k].op = "if"
                      THEN LET e == firstAtDepth(code, k + 1, Len(code),
                                                 {"else", "end"}, 0).pos
                           IN  IF code[e].op = "else" THEN e ELSE 0
                      ELSE 0]
        ELSE [end |-> 0, els |-> 0]]
\* the entry of the instruction the frame f is at
Jump(r, f) == r.jumps[f.fi - Len(importFunctions) + 1][f.pc]

Top(f) == f.stack[Len(f.stack)]
Second(f) == f.stack[Len(f.stack) - 1]
Pop(f, n) == SubSeq(f.stack, 1, Len(f.stack) - n)

\* a runtime helper applied to the operand stack; ok = FALSE when the
\* helper is applied outside the cases the model gives a meaning to
helperApply(name, f) ==
    CASE name = "box_nil" ->
            [ok |-> TRUE, stack |-> Append(f.stack, Value("nil", 0, 0))]
      [] name = "box_bool" ->
            [ok |-> TRUE,
             stack |-> Append(Pop(f, 1), Value("bool", BoolToInt(Top(f).val # 0), 0))]
      [] name = "box_number" ->
            [ok |-> TRUE, stack |-> Append(Pop(f, 1), Value("number", Top(f).val, 0))]
      [] name = "box_string" ->
            [ok |-> TRUE,
             stack |-> Append(Pop(f, 2), Value("string", Second(f).val, Top(f).val))]
      [] name = "unbox_number" ->
            [ok |-> Top(f).tag = "number",
             stack |-> Append(Pop(f, 1), F64(Top(f).val))]
      [] name = "is_string" ->
            [ok |-> TRUE,
             stack |-> Append(Pop(f, 1), I32(BoolToInt(Top(f).tag = "string")))]
      [] name = "is_bool" ->
            [ok |-> TRUE,
             stack |-> Append(Pop(f, 1), I32(BoolToInt(Top(f).tag = "bool")))]
      [] name = "is_number" ->
            [ok |-> TRUE,
             stack |-> Append(Pop(f, 1), I32(BoolToInt(Top(f).tag = "number")))]
      [] name = "is_nil" ->
            [ok |-> TRUE,
             stack |-> Append(Pop(f, 1), I32(BoolToInt(Top(f).tag = "nil")))]
      [] name = "is_truthy" ->
            [ok |-> TRUE,
             stack |-> Append(Pop(f, 1), I32(BoolToInt(is_truthy(Top(f)))))]
      [] name = "to_number" ->
            [ok |-> Top(f).tag \in {"number", "bool", "nil"},
             stack |-> Append(Pop(f, 1), Value("number", Top(f).val, 0))]
      [] OTHER -> [ok |-> FALSE, stack |-> f.stack]

numericOps ==
    {"f64.add", "f64.sub", "f64.mul", "f64.eq", "f64.ne", "f64.lt", "f64.le",
     "f64.gt", "f64.ge", "i32.add", "i32.or", "i32.ge_u", "i32.le_u"}
numericApply(op, a, b) ==
    CASE op = "f64.add" -> F64(a.val + b.val)
      [] op = "f64.sub" -> F64(a.val - b.val)
      [] op = "f64.mul" -> F64(a.val * b.val)
      [] op = "f64.eq" -> I32(BoolToInt(a.val = b.val))
      [] op = "f64.ne" -> I32(BoolToInt(a.val # b.val))
      [] op = "f64.lt" -> I32(BoolToInt(a.val < b.val))
      [] op = "f64.le" -> I32(BoolToInt(a.val <= b.val))
      [] op = "f64.gt" -> I32(BoolToInt(a.val > b.val))
      [] op = "f64.ge" -> I32(BoolToInt(a.val >= b.val))
      [] op = "i32.add" -> I32(a.val + b.val)
      [] op = "i32.or" -> I32(BoolToInt(a.val # 0 \/ b.val # 0))
      [] op = "i32.le_u" -> I32(BoolToInt(a.val <= b.val))
      [] OTHER -> I32(BoolToInt(a.val >= b.val))

\* env.print / env.println: the first OutCap values and the number of values
hostOutput(r, v, newline) ==
    [r EXCEPT !.nout = @ + 1,
              !.out = IF Len(@) < OutCap
                      THEN Append(@, [v |-> v, nl |-> newline]) ELSE @]

Frame(r) == r.frames[Len(r.frames)]
SetFrame(r, f) == [r EXCEPT !.frames[Len(r.frames)] = f]
Halt(r, status) == [r EXCEPT !.status = status]

\* return: back to the caller with the value on top of the stack
doReturn(r) ==
    IF Len(r.frames) = 1 THEN Halt(r, "done")
    ELSE LET f == Frame(r)
             caller == r.frames[Len(r.frames) - 1]
         IN  [r EXCEPT !.frames =
                Append(SubSeq(r.frames, 1, Len(r.frames) - 2),
                       [caller EXCEPT !.stack = Append(@, Top(f))])]

\* br n
doBranch(r, n) ==
    LET f == Frame(r)
        target == f.labels[Len(f.labels) - n]
    IN  IF target.kind = "loop"
        THEN SetFrame(r, [f EXCEPT !.pc = target.start + 1,
                                   !.labels = SubSeq(@, 1, Len(f.labels) - n)])
        ELSE SetFrame(r, [f EXCEPT !.pc = target.end + 1,
                                   !.labels = SubSeq(@, 1, Len(f.labels) - n - 1)])

\* the instruction ins of the frame f on top of the call stack
execute(r, f, ins) ==
    LET op == ins.op
        next == [f EXCEPT !.pc = f.pc + 1]
    IN
    CASE op \in {"i32.const"} ->
            SetFrame(r, [next EXCEPT !.stack = Append(@, I32(ins.arg))])
      [] op = "f64.const" ->
            SetFrame(r, [next EXCEPT !.stack = Append(@, F64(ins.arg))])
      [] op = "local.get" ->
            SetFrame(r, [next EXCEPT !.stack = Append(@, f.locals[ins.arg + 1])])
      [] op = "local.set" ->
            SetFrame(r, [next EXCEPT !.stack = Pop(f, 1),
                                     !.locals[ins.arg + 1] = Top(f)])
      [] op = "drop" -> SetFrame(r, [next EXCEPT !.stack = Pop(f, 1)])
      [] op \in numericOps ->
            SetFrame(r, [next EXCEPT !.stack =
                Append(Pop(f, 2), numericApply(op, Second(f), Top(f)))])
      [] op = "i32.eqz" ->
            SetFrame(r, [next EXCEPT !.stack =
                Append(Pop(f, 1), I32(BoolToInt(Top(f).val = 0)))])
      [] op = "f64.neg" ->
            SetFrame(r, [next EXCEPT !.stack = Append(Pop(f, 1), F64(0 - Top(f).val))])
      [] op = "call" ->
            IF IsImport(ins.arg)
            THEN hostOutput(SetFrame(r, [next EXCEPT !.stack = Pop(f, 1)]),
                           Top(f), importFunctions[ins.arg + 1] = "println")
            ELSE IF IsHelper(ins.arg)
            THEN LET h == helperApply(definedFunctions[ins.arg - Len(importFunctions) + 1], f) IN
                 IF h.ok THEN SetFrame(r, [next EXCEPT !.stack = h.stack])
                 ELSE Halt(r, "undefined")
            ELSE LET n == Len(cres.bytes.data[2].payload[ins.arg + 1].params)
                     args == SubSeq(f.stack, Len(f.stack) - n + 1, Len(f.stack))
                 IN  [r EXCEPT !.frames =
                        Append(SubSeq(r.frames, 1, Len(r.frames) - 1)
                               \o <<[next EXCEPT !.stack = Pop(f, n)]>>,
                               NewFrame(ins.arg, args))]
      [] op \in {"block", "loop"} ->
            SetFrame(r, [next EXCEPT !.labels =
                Append(@, [kind |-> op, start |-> f.pc,
                           end |-> Jump(r, f).end])])
      [] op = "if" ->
            LET label == [kind |-> "if", start |-> f.pc, end |-> Jump(r, f).end]
                els == Jump(r, f).els
            IN  IF Top(f).val # 0
                THEN SetFrame(r, [next EXCEPT !.stack = Pop(f, 1),
                                              !.labels = Append(@, label)])
                ELSE IF els # 0
                THEN SetFrame(r, [f EXCEPT !.pc = els + 1, !.stack = Pop(f, 1),
                                           !.labels = Append(@, label)])
                ELSE SetFrame(r, [f EXCEPT !.pc = label.end + 1,
                                           !.stack = Pop(f, 1)])
      [] op = "else" ->
            SetFrame(r, [f EXCEPT !.pc = f.labels[Len(f.labels)].end + 1,
                                  !.labels = SubSeq(@, 1, Len(f.labels) - 1)])
      [] op = "end" ->
            IF Len(f.labels) = 0 THEN doReturn(r)
            ELSE SetFrame(r, [next EXCEPT !.labels = SubSeq(@, 1, Len(f.labels) - 1)])
      [] op = "br" -> doBranch(r, ins.arg)
      [] op = "br_if" ->
            IF Top(f).val # 0
            THEN doBranch(SetFrame(r, [f EXCEPT !.stack = Pop(f, 1)]), ins.arg)
            ELSE SetFrame(r, [next EXCEPT !.stack = Pop(f, 1)])
      [] op = "return" -> doReturn(r)
      [] op = "unreachable" -> Halt(r, "trap")
      [] OTHER -> Halt(r, "undefined")

\* one instruction of the function on top of the call stack
step(r) ==
    CHOOSE after \in
        UNION {{execute(r, f, ins) : ins \in {CodeOf(f.fi)[f.pc]}} :
                 f \in {Frame(r)}} : TRUE

CurrentOp(r) == CodeOf(Frame(r).fi)[Frame(r).pc].op

RECURSIVE runBlock(_)
\* the instructions up to and including the next branch, call of a user
\* function or return, or up to the end of the execution
runBlock(r) ==
    CHOOSE last \in
        {IF r1.status # "running" \/ CurrentOp(r) \in {"br", "br_if", "return"}
            \/ (/\ CurrentOp(r) = "call"
                /\ ~IsImport(CodeOf(Frame(r).fi)[Frame(r).pc].arg)
                /\ ~IsHelper(CodeOf(Frame(r).fi)[Frame(r).pc].arg))
         THEN r1 ELSE runBlock(r1) : r1 \in {step(r)}} : TRUE


(***************************************************************************)
(* The programs that are compiled and run.  A program is described by a    *)
(* record [kind, a, b, c, d]:                                              *)
(*   while : n := 0  while <cond a, bound b> do n := n + 1 end             *)
(*   for   : for i := a, b [, c] do print i end        (d: step is given)  *)
(*   nested: for i := 1, a do k := 0  while k < b do k := k + 1 end end    *)
(*   logic : func l() print 100 ret <b> end  func r() print 200 ret <c> end*)
(*           println (l() and r())                 (a = 1: or instead)     *)
(*   if    : if p() then print 1 elif q() then print 2 elif r() then       *)
(*           print 3 else print 4 end     (a, b, c: what p, q, r return;   *)
(*           b, c < 0: no such elif; d: there is an else)                  *)
(*   calls : a functions, then func <name b>() print 107 end, a call of    *)
(*           it, then c more functions                                     *)
(***************************************************************************)
Desc(kind, a, b, c, d) == [kind |-> kind, a |-> a, b |-> b, c |-> c, d |-> d]

ValueKinds == 0..4
\* the box a value kind evaluates to
ValueBox(k) ==
    CASE k = 0 -> Value("nil", 0, 0)
      [] k = 1 -> Value("bool", 0, 0)
      [] k = 2 -> Value("bool", 1, 0)
      [] k = 3 -> Value("number", 0, 0)
      [] OTHER -> Value("string", 0, 0)

NumExpr(n) == IF n < 0 THEN Un("-", Num(0 - n)) ELSE Num(n)

WhileCond(a, b) ==
    CASE a = 0 -> Bool(FALSE)
      [] a = 1 -> Bool(TRUE)
      [] a = 2 -> Bin("<", Id("n", 2, 7), Num(b))
      [] OTHER -> Num(0)

Increment(name, line) ==
    Assign(name, line, 1, Bin("+", Id(name, line, 6), Num(1)))

Marker(name, mark, k) ==
    FuncDecl(name, 1, 6, <<>>,
             IF k = 0 THEN <<Output(Num(mark))>>
             ELSE <<Output(Num(mark)),
                    Ret(CASE k = 1 -> Bool(FALSE)
                          [] k = 2 -> Bool(TRUE)
                          [] k = 3 -> Num(0)
                          [] OTHER -> Str(<<>>))>>)

\* the names given to the function that is called in the programs "calls"
CalleeNames == <<"g", "box_nil">>

AstOf(p) ==
    CASE p.kind = "while" ->
            Program(<<LocalAssign("n", 1, 1, Num(0)),
                      While(WhileCond(p.a, p.b), <<Increment("n", 3)>>)>>)
      [] p.kind = "for" ->
            Program(<<For(LocalAssign("i", 1, 5, NumExpr(p.a)), NumExpr(p.b),
                          p.d, NumExpr(p.c), <<Output(Id("i", 2, 7))>>)>>)
      [] p.kind = "if" ->
            Program(<<Marker("p", 101, p.a), Marker("q", 102, p.b),
                      Marker("r", 103, p.c),
                      If(CallExpr("p", 4, 4, <<>>), <<Output(Num(1))>>,
                         (IF p.b < 0 THEN <<>>
                          ELSE <<[condition |-> CallExpr("q", 6, 6, <<>>),
                                  body |-> <<Output(Num(2))>>]>>)
                         \o (IF p.c < 0 THEN <<>>
                             ELSE <<[condition |-> CallExpr("r", 8, 6, <<>>),
                                     body |-> <<Output(Num(3))>>]>>),
                         p.d, <<Output(Num(4))>>)>>)
      [] p.kind = "nested" ->
            Program(<<For(LocalAssign("i", 1, 5, Num(1)), Num(p.a), FALSE, Num(1),
                          <<LocalAssign("k", 2, 1, Num(0)),
                            While(Bin("<", Id("k", 3, 7), Num(p.b)),
                                  <<Increment("k", 4)>>)>>)>>)
      [] p.kind = "calls" ->
            Program(SubSeq(<<Marker("p", 101, 0), Marker("q", 102, 0)>>, 1, p.a)
                    \o <<Marker(CalleeNames[p.b], 107, 0),
                          ExprStmt(CallExpr(CalleeNames[p.b], 4, 1, <<>>))>>
                    \o SubSeq(<<Marker("r", 103, 0)>>, 1, p.c))
      [] OTHER ->
            Program(<<Marker("l", 100, p.b), Marker("r", 200, p.c),
                      OutputLn(Bin(IF p.a = 0 THEN "and" ELSE "or",
                                   CallExpr("l", 3, 9, <<>>),
                                   CallExpr("r", 3, 17, <<>>)))>>)

Small == 0..MaxVal

RunPrograms ==
    {Desc("while", a, 0, 0, FALSE) : a \in {0, 1, 3}}
    \cup {Desc("while", 2, b, 0, FALSE) : b \in Small \cup {MAX_ITERATIONS}}
    \cup {Desc("for", a, b, c, TRUE) : a \in Small, b \in Small, c \in {0 - 1, 1, 2}}
    \cup {Desc("for", a, 0, 0, TRUE) : a \in 0..1}
    \cup {Desc("for", a, b, 1, FALSE) : a \in Small, b \in Small}
    \cup {Desc("for", 1, b, 1, FALSE) : b \in {MAX_ITERATIONS - 1, MAX_ITERATIONS}}
    \cup {Desc("for", MAX_ITERATIONS, 1, 0 - 1, TRUE)}
    \cup {Desc("nested", 2, (MAX_ITERATIONS \div 2) + 1, 0, FALSE)}
    \cup {Desc("logic", a, b, c, FALSE) : a \in 0..1, b \in ValueKinds, c \in ValueKinds}
    \cup {Desc("calls", a, b, c, FALSE) :
              a \in 0..2, b \in 1..Len(CalleeNames), c \in 0..1}
    \cup {Desc("if", a, 0 - 1, 0 - 1, d) : a \in ValueKinds, d \in BOOLEAN}
    \cup {Desc("if", a, b, c, d) : a \in ValueKinds, b \in 1..2, c \in {0 - 1, 1, 2},
                                   d \in BOOLEAN}

InitRun ==
    /\ variant = 0
    /\ src = <<>>
    /\ pos = [line |-> 1, column |-> 1, current |-> 0]
    /\ tokens = <<>>
    /\ tokenError = Null
    /\ pc = "run"
    /\ calls = <<"compile">>
    /\ parseError = Null
    /\ result = Null
    /\ prog \in RunPrograms
    /\ ast = AstOf(prog)
    /\ \E r \in {compile(initialState, ast)} :
        /\ cres = r.res
        /\ mstate = r.m
    /\ rt = [status |-> "running", frames |-> <<NewFrame(cres.bytes.data[7].payload[1], <<>>)>>,
             out |-> <<>>, nout |-> 0, jumps |-> [n \in 1..Len(CodeSection) |-> JumpTable(CodeSection[n])]]

Execute ==
    /\ pc = "run" /\ rt.status = "running"
    /\ rt' = runBlock(rt)
    /\ UNCHANGED <<lexVars, variant, calls, ast, parseError, result,
                   pc, cres, mstate, prog>>

SpecRun == InitRun /\ [][Execute]_vars /\ WF_vars(Execute)

Halted == rt.status # "running"

(***************************************************************************)
(* Observations of a run and what a run is expected to produce.            *)
(***************************************************************************)
\* the local of main in slot i - 1
MainLocal(i) == rt.frames[1].locals[i]
Printed(n, newline) == [v |-> Value("number", n, 0), nl |-> newline]
Min(a, b) == IF a < b THEN a ELSE b

\* how many times the body of the loop under observation has run since the
\* loop was entered: n counts the passes of the while loop, every pass of the
\* for loop prints, k counts the passes of the inner loop since its entry
BodyRuns ==
    CASE prog.kind = "while" -> MainLocal(1).val
      [] prog.kind = "for" -> rt.nout
      [] prog.kind = "nested" -> MainLocal(2).val
      [] OTHER -> 0

\* the step of a for loop and the number of values start, start + step, ...
\* that have not crossed stop (Unbounded when the values never cross it)
Unbounded == 0 - 1
ForStep(p) == IF p.d THEN p.c ELSE 1
ForRuns(p) ==
    IF ForStep(p) < 0
    THEN IF p.a < p.b THEN 0 ELSE ((p.a - p.b) \div (0 - ForStep(p))) + 1
    ELSE IF p.a > p.b THEN 0
    ELSE IF ForStep(p) = 0 THEN Unbounded
    ELSE ((p.b - p.a) \div ForStep(p)) + 1
ForCapped(p) == ForRuns(p) = Unbounded \/ ForRuns(p) >= MAX_ITERATIONS
ForBodyRuns(p) == IF ForCapped(p) THEN MAX_ITERATIONS ELSE ForRuns(p)
ForValue(p, k) == p.a + (k - 1) * ForStep(p)

\* the truthiness of a value kind: nil and false are falsy
Truthy(k) == k \in {2, 3, 4}
RightSkipped(p) == IF p.a = 0 THEN ~Truthy(p.b) ELSE Truthy(p.b)
LogicOutput(p) ==
    IF RightSkipped(p)
    THEN <<Printed(100, FALSE), [v |-> ValueBox(p.b), nl |-> TRUE]>>
    ELSE <<Printed(100, FALSE), Printed(200, FALSE),
           [v |-> ValueBox(p.c), nl |-> TRUE]>>

\* C8: every run of a compiled loop ends; the body runs at most
\* MAX_ITERATIONS times per entry of the loop, and a run that traps has run
\* the body exactly MAX_ITERATIONS times before the pass that traps
C8_LoopsTerminate ==
    /\ [](/\ rt.status \in {"running", "done", "trap"}
          /\ BodyRuns <= MAX_ITERATIONS
          /\ rt.status = "trap" => BodyRuns = MAX_ITERATIONS)
    /\ <>Halted

\* a while loop whose condition never fails is stopped by the guard
C8_Witness ==
    /\ prog.kind = "while" /\ prog.a = 1
    /\ rt.status = "trap" /\ BodyRuns = MAX_ITERATIONS

\* C9 as stated: a for loop whose values cross stop runs its body for every
\* value that has not crossed stop and then exits
C9_AsStated ==
    (prog.kind = "for" /\ Halted /\ ForRuns(prog) # Unbounded)
        => rt.status = "done" /\ rt.nout = ForRuns(prog)

\* C9 amended: the body runs for start, start + step, ... up to the last
\* value that has not crossed stop, at most MAX_ITERATIONS times; the loop
\* exits when fewer than MAX_ITERATIONS values have not crossed stop and
\* traps on the pass after the MAX_ITERATIONS-th otherwise
C9_ForLoopRunsUntilCrossedOrCapped ==
    (prog.kind = "for" /\ Halted) =>
        /\ rt.status = (IF ForCapped(prog) THEN "trap" ELSE "done")
        /\ rt.nout = ForBodyRuns(prog)
        /\ rt.out = [k \in 1..Min(ForBodyRuns(prog), OutCap) |->
                        Printed(ForValue(prog, k), FALSE)]

\* a descending loop that ran its two values and exited
C9_Witness ==
    /\ prog.kind = "for" /\ prog.d /\ prog.c < 0 /\ prog.a = 1 /\ prog.b = 0
    /\ rt.status = "done" /\ rt.nout = 2

\* C10: in `l() and r()` and `l() or r()` the left operand is evaluated once
\* and first, the right operand is evaluated only when the truthiness of the
\* left value asks for it, and the value is the left value when the right
\* operand is skipped and the right value otherwise
C10_ShortCircuit ==
    (prog.kind = "logic" /\ Halted) =>
        /\ rt.status = "done"
        /\ rt.out = LogicOutput(prog)
        /\ rt.nout = Len(LogicOutput(prog))

\* `l() and r()` with l() = nil: r() is skipped and the value is nil
C10_Witness ==
    /\ prog.kind = "logic" /\ prog.a = 0 /\ prog.b = 0
    /\ rt.status = "done" /\ rt.nout = 2

\* the conditions of an if statement in source order, as value kinds
IfConds(p) ==
    <<p.a>> \o (IF p.b < 0 THEN <<>> ELSE <<p.b>>)
            \o (IF p.c < 0 THEN <<>> ELSE <<p.c>>)
\* the first truthy condition, 0 when there is none
FirstTruthy(ks) ==
    IF \E i \in 1..Len(ks) : Truthy(ks[i])
    THEN CHOOSE i \in 1..Len(ks) :
            Truthy(ks[i]) /\ \A j \in 1..(i - 1) : ~Truthy(ks[j])
    ELSE 0
\* condition i prints 100 + i when it is evaluated, body i prints i, the else
\* body prints 4
IfOutput(p) ==
    LET t == FirstTruthy(IfConds(p))
        evaluated == IF t = 0 THEN Len(IfConds(p)) ELSE t
    IN  [i \in 1..evaluated |-> Printed(100 + i, FALSE)]
        \o (IF t # 0 THEN <<Printed(t, FALSE)>>
            ELSE IF p.d THEN <<Printed(4, FALSE)>> ELSE <<>>)

\* C11: an if/elif/else chain evaluates its conditions in source order up to
\* the first truthy one and runs the body of that branch and no other; the
\* else body runs exactly when no condition is truthy
C11_IfChain ==
    (prog.kind = "if" /\ Halted) =>
        /\ rt.status = "done"
        /\ rt.out = IfOutput(prog)
        /\ rt.nout = Len(IfOutput(prog))

\* the second elif is the first truthy condition: three conditions and the
\* third body
C11_Witness ==
    /\ prog.kind = "if" /\ prog.a = 1 /\ prog.b = 1 /\ prog.c = 2 /\ prog.d
    /\ rt.status = "done" /\ rt.nout = 4
    /\ rt.out[4] = Printed(3, FALSE)

(***************************************************************************)
(* The operations of ./compiler/state and the string table, applied in any *)
(* order inside one function body.  mstate is the compiler state, prog the *)
(* number of parameters of the body, calls the slots and offsets handed    *)
(* out so far, result what the last operation returned.                    *)
(***************************************************************************)
MaxOps == 3
MaxDepth == 2
VarNames == {"x", "a"}
ParamLists == <<  <<>>, <<Id("a", 1, 10)>>, <<Id("a", 1, 10), Id("b", 1, 13)>>  >>
Literals == { <<>>, <<233>>, <<97, 8364>> }

\* the state at the start of a function body with prog parameters
InitState ==
    /\ variant = 0
    /\ src = <<>>
    /\ pos = [line |-> 1, column |-> 1, current |-> 0]
    /\ tokens = <<>>
    /\ tokenError = Null
    /\ pc = "state"
    /\ calls = <<>>
    /\ ast = Null
    /\ parseError = Null
    /\ cres = Null
    /\ result = Null
    /\ prog \in 0..(Len(ParamLists) - 1)
    /\ mstate = declareParams([scopes |-> << <<>> >>, localVarsIndex |-> 0,
                               userDefinedFunctions |-> <<>>,
                               functionBodies |-> helperBodies,
                               strings |-> createStringTable, error |-> Null],
                              ParamLists[prog + 1], 1)
    /\ rt = NoRun

EnterScope ==
    /\ pc = "state" /\ Len(mstate.scopes) < MaxDepth
    /\ mstate' = enterScope(mstate)
    /\ result' = Null
    /\ UNCHANGED <<lexVars, variant, pc, ast, parseError, cres, prog, rt, calls>>

\* scopes are exited only after they were entered
ExitScope ==
    /\ pc = "state" /\ Len(mstate.scopes) > 1
    /\ mstate' = exitScope(mstate)
    /\ result' = Null
    /\ UNCHANGED <<lexVars, variant, pc, ast, parseError, cres, prog, rt, calls>>

Declare ==
    /\ pc = "state" /\ Len(calls) < MaxOps
    /\ \E name \in VarNames, isLocal \in BOOLEAN :
       \E r \in {declareVar(mstate, name, isLocal)} :
        /\ mstate' = r.c
        /\ result' = [op |-> "declare", name |-> name, isLocal |-> isLocal,
                      slot |-> r.index]
        /\ calls' = IF r.c.localVarsIndex = mstate.localVarsIndex THEN calls
                    ELSE Append(calls, [op |-> "declare", arg |-> name, slot |-> r.index])
    /\ UNCHANGED <<lexVars, variant, pc, ast, parseError, cres, prog, rt>>

\* a variable read: the Identifier case of compileExpression
Lookup ==
    /\ pc = "state"
    /\ \E name \in VarNames :
       \E r \in {compileExpression(mstate, Id(name, 1, 1))} :
        result' = [op |-> "lookup", name |-> name, error |-> r.c.error,
                   code |-> r.code]
    /\ UNCHANGED <<lexVars, variant, pc, ast, parseError, cres, prog, rt, mstate,
                   calls>>

ConsumeScratch ==
    /\ pc = "state" /\ Len(calls) < MaxOps
    /\ \E r \in {consumeScratchIndex(mstate)} :
        /\ mstate' = r.c
        /\ result' = [op |-> "scratch", slot |-> r.index]
        /\ calls' = Append(calls, [op |-> "scratch", arg |-> "", slot |-> r.index])
    /\ UNCHANGED <<lexVars, variant, pc, ast, parseError, cres, prog, rt>>

Intern ==
    /\ pc = "state" /\ Len(calls) < MaxOps
    /\ \E s \in Literals :
       \E r \in {getOffset(mstate, s)} :
        /\ mstate' = r.c
        /\ result' = [op |-> "intern", s |-> s, offset |-> r.offset]
        /\ calls' = Append(calls, [op |-> "intern", arg |-> s, slot |-> r.offset])
    /\ UNCHANGED <<lexVars, variant, pc, ast, parseError, cres, prog, rt>>

\* a function declaration met in the body:
\*     func <name>(<params>)  t := 1  return <v>  end
\* a declaration that throws ends the compilation and is only reported
DeclareFunction ==
    /\ pc = "state" /\ mstate.userDefinedFunctions = <<>>
    /\ \E n \in 1..Len(ParamLists), v \in {"x", "a", "b"} :
       \E r \in {compileFunctionDecl(mstate,
                    FuncDecl("f", 1, 6, ParamLists[n],
                             <<LocalAssign("t", 2, 1, Num(1)),
                               Ret(Id(v, 3, 8))>>))} :
        /\ mstate' = IF Failed(r.c) THEN mstate ELSE r.c
        /\ result' = [op |-> "function", params |-> n - 1, v |-> v,
                      error |-> r.c.error,
                      name |-> "f"]
    /\ UNCHANGED <<lexVars, variant, pc, ast, parseError, cres, prog, rt, calls>>

NextState ==
    \/ EnterScope \/ ExitScope \/ Declare \/ Lookup \/ ConsumeScratch
    \/ Intern \/ DeclareFunction

SpecState == InitState /\ [][NextState]_vars

(***************************************************************************)
(* Name resolution, stated over the scope stack from the top down.         *)
(***************************************************************************)
OpOf(r) == IF "op" \in DOMAIN r THEN r.op ELSE "none"

RECURSIVE Resolve(_, _)
\* the slot a name denotes in a scope stack, -1 when no open scope binds it
Resolve(scopes, name) ==
    IF scopes = <<>> THEN 0 - 1
    ELSE LET top == scopes[Len(scopes)]
             hits == {i \in 1..Len(top) : top[i].name = name}
         IN  IF hits # {}
             THEN top[CHOOSE i \in hits : \A j \in hits : j <= i].index
             ELSE Resolve(SubSeq(scopes, 1, Len(scopes) - 1), name)

\* the step created a binding of name to a new slot in the top scope
CreatesInTop(c, d, name, slot) ==
    /\ slot = c.localVarsIndex
    /\ \A k \in 1..Len(c.scopes) : \A i \in 1..Len(c.scopes[k]) :
           c.scopes[k][i].index # slot
    /\ d.localVarsIndex = c.localVarsIndex + 1
    /\ Len(d.scopes) = Len(c.scopes)
    /\ \A k \in 1..(Len(c.scopes) - 1) : d.scopes[k] = c.scopes[k]
    /\ Resolve(<<d.scopes[Len(d.scopes)]>>, name) = slot
    /\ \A n \in VarNames \ {name} :
           Resolve(<<d.scopes[Len(d.scopes)]>>, n)
               = Resolve(<<c.scopes[Len(c.scopes)]>>, n)

ScopeStep ==
    LET c == mstate
        d == mstate'
        r == result'
    IN  /\ (OpOf(r) = "declare" /\ (r.isLocal \/ Resolve(c.scopes, r.name) < 0))
               => CreatesInTop(c, d, r.name, r.slot)
        /\ (OpOf(r) = "declare" /\ ~r.isLocal /\ Resolve(c.scopes, r.name) >= 0)
               => (r.slot = Resolve(c.scopes, r.name) /\ d = c)
        /\ (OpOf(r) = "lookup" /\ Resolve(c.scopes, r.name) >= 0)
               => /\ r.error = Null
                  /\ r.code = Ins("local.get", Resolve(c.scopes, r.name))
        /\ (OpOf(r) = "lookup" /\ Resolve(c.scopes, r.name) < 0)
               => /\ r.error.class = "CompilerError"
                  /\ r.error.message = "Variable is not declared"
                  /\ r.error.name = r.name
        /\ (OpOf(r) = "none" /\ Len(d.scopes) < Len(c.scopes))
               => \A n \in VarNames :
                      Resolve(SubSeq(c.scopes, 1, Len(c.scopes) - 1), n) < 0
                          => Resolve(d.scopes, n) < 0

\* C12: declare with is_local binds the name to a new slot in the top scope;
\* declare without it returns the slot of the innermost open scope binding
\* the name and creates nothing, or creates a new slot in the top scope when
\* no open scope binds it; a read yields the slot of the innermost open scope
\* binding the name and fails as undeclared when none does, so a name
\* declared only in an exited scope no longer resolves.
C12_ScopeOperations == [][ScopeStep]_vars

\* C12 witness: a name that was declared, whose scope was exited, is read and
\* reported as not declared
C12_Witness ==
    /\ OpOf(result) = "lookup"
    /\ result.error # Null
    /\ \E i \in 1..Len(calls) :
           calls[i].op = "declare" /\ calls[i].arg = result.name
    /\ Len(mstate.scopes) = 1

(***************************************************************************)
(* A function declaration met while scopes are open and slots are in use.  *)
(***************************************************************************)
Emits(code, op, arg) == \E j \in 1..Len(code) : code[j] = [op |-> op, arg |-> arg]

FunctionStep ==
    LET c == mstate
        d == mstate'
        r == result'
    IN  OpOf(r) = "function" =>
            LET params == ParamLists[r.params + 1]
                at == {i \in 1..Len(params) : params[i].name = r.v}
            IN  IF at = {}
                THEN /\ r.error.class = "CompilerError"
                     /\ r.error.message = "Variable is not declared"
                     /\ r.error.name = r.v
                ELSE /\ r.error = Null
                     /\ d.scopes = c.scopes
                     /\ d.localVarsIndex = c.localVarsIndex
                     /\ \A i \in at :
                            Emits(functionBody(d, r.name), "local.get", i - 1)
                     /\ Emits(functionBody(d, r.name), "local.set", Len(params))

\* C13: the body of a function declaration is lowered in a scope stack that
\* holds only a fresh scope binding the parameters to slots 0..N-1: a name
\* bound only outside is reported as not declared, a parameter is read from
\* its slot and the first local of the body takes slot N; once the
\* declaration is compiled, at any nesting depth, the outer scope stack and
\* the outer slot counter are what they were before it.
C13_FunctionIsolation == [][FunctionStep]_vars

\* C13 witness: a declaration compiled inside a nested scope, with a binding
\* of x outside and more slots in use outside than the body uses
C13_Witness ==
    /\ OpOf(result) = "function"
    /\ result.error = Null
    /\ result.params = 2
    /\ Len(mstate.scopes) = 2
    /\ Resolve(mstate.scopes, "x") >= 0
    /\ mstate.localVarsIndex > 3

(***************************************************************************)
(* Slot allocation inside one function body with prog parameters.          *)
(***************************************************************************)
Allocations == {i \in 1..Len(calls) : calls[i].op \in {"declare", "scratch"}}

SlotsDistinct ==
    /\ \A i \in Allocations : calls[i].slot >= prog
    /\ \A i \in Allocations : calls[i].slot < mstate.localVarsIndex
    /\ \A i \in Allocations : \A j \in Allocations :
           i < j => calls[i].slot < calls[j].slot
    /\ \A k \in 1..Len(mstate.scopes) : \A i \in 1..Len(mstate.scopes[k]) :
           LET b == mstate.scopes[k][i] IN
           \/ /\ b.index < prog
              /\ ParamLists[prog + 1][b.index + 1].name = b.name
           \/ \E e \in Allocations :
                  /\ calls[e].op = "declare"
                  /\ calls[e].slot = b.index
                  /\ calls[e].arg = b.name
    /\ \A k \in 1..Len(mstate.scopes) : \A i \in 1..Len(mstate.scopes[k]) :
       \A l \in 1..Len(mstate.scopes) : \A j \in 1..Len(mstate.scopes[l]) :
           mstate.scopes[k][i].index = mstate.scopes[l][j].index
               => (k = l /\ i = j)
    /\ getLocalDecls(mstate, prog)
           = Ins("locals", mstate.localVarsIndex - prog)
    /\ Cardinality(Allocations) = mstate.localVarsIndex - prog

RECURSIVE Utf8Decode(_)
\* the code points a well-formed UTF-8 byte sequence stands for
Utf8Decode(b) ==
    IF b = <<>> THEN <<>>
    ELSE IF b[1] < 128 THEN <<b[1]>> \o Utf8Decode(SubSeq(b, 2, Len(b)))
    ELSE IF b[1] < 224
    THEN <<(b[1] - 192) * 64 + (b[2] - 128)>> \o Utf8Decode(SubSeq(b, 3, Len(b)))
    ELSE IF b[1] < 240
    THEN <<(b[1] - 224) * 4096 + (b[2] - 128) * 64 + (b[3] - 128)>>
         \o Utf8Decode(SubSeq(b, 4, Len(b)))
    ELSE <<(b[1] - 240) * 262144 + (b[2] - 128) * 4096 + (b[3] - 128) * 64
           + (b[4] - 128)>> \o Utf8Decode(SubSeq(b, 5, Len(b)))

RECURSIVE Utf8Length(_)
Utf8Length(s) ==
    IF s = <<>> THEN 0
    ELSE (IF Head(s) < 128 THEN 1 ELSE IF Head(s) < 2048 THEN 2
          ELSE IF Head(s) < 65536 THEN 3 ELSE 4) + Utf8Length(Tail(s))

Interns == {i \in 1..Len(calls) : calls[i].op = "intern"}

\* every offset handed out denotes the UTF-8 bytes of its string
OffsetsDenote ==
    \A i \in Interns :
        LET s == calls[i].arg
            o == calls[i].slot
        IN  /\ o + Utf8Length(s) <= Len(mstate.strings.bytes)
            /\ \A k \in 1..Utf8Length(s) : mstate.strings.bytes[o + k] \in 0..255
            /\ Utf8Decode(SubSeq(mstate.strings.bytes, o + 1, o + Utf8Length(s))) = s
            /\ \A j \in Interns : calls[j].arg = s => calls[j].slot = o

InternStep ==
    LET c == mstate
        d == mstate'
        r == result'
    IN  /\ \E n \in 0..4 :
               d.strings.bytes = c.strings.bytes
                   \o SubSeq(d.strings.bytes, Len(c.strings.bytes) + 1,
                             Len(c.strings.bytes) + n)
        /\ OpOf(r) = "intern" =>
               IF \E i \in Interns : calls[i].arg = r.s
               THEN d.strings.bytes = c.strings.bytes
               ELSE /\ r.offset = Len(c.strings.bytes)
                    /\ Len(d.strings.bytes) = r.offset + Utf8Length(r.s)
                    /\ Utf8Decode(SubSeq(d.strings.bytes, r.offset + 1,
                                         Len(d.strings.bytes))) = r.s

\* C15: within one compilation the string table only grows at its end;
\* interning a string seen before returns the offset it got the first time
\* and leaves the bytes unchanged; interning a new string appends exactly its
\* UTF-8 bytes at the returned offset; every offset returned keeps denoting
\* the bytes of its string.
C15_StringTable == []OffsetsDenote /\ [][InternStep]_vars

\* C15 witness: a string with a three-byte code point is interned, then a
\* string with a two-byte code point, then the first one again
C15_Witness ==
    /\ Len(calls) = 3
    /\ calls[1] = [op |-> "intern", arg |-> <<97, 8364>>, slot |-> 0]
    /\ calls[2] = [op |-> "intern", arg |-> <<233>>, slot |-> 4]
    /\ calls[3] = [op |-> "intern", arg |-> <<97, 8364>>, slot |-> 0]
    /\ mstate.strings.bytes = <<97, 226, 130, 172, 195, 169>>

(***************************************************************************)
(* The function index space of an assembled module.                        *)
(***************************************************************************)
\* the names of the user functions of a program "calls", in declaration order
DeclaredNames(p) ==
    SubSeq(<<"p", "q">>, 1, p.a) \o <<CalleeNames[p.b]>> \o SubSeq(<<"r">>, 1, p.c)

\* the index of the function a program "calls" declares and calls
CalleeIndex(p) == Len(importFunctions) + Len(definedFunctions) + p.a

\* C16: imports take the indices 0..I-1, the runtime helpers I..I+R-1 with
\* their own bodies, the user functions I+R.. in declaration order; the call
\* of a user function carries the index at which the Function and Code
\* sections hold that function, whatever is declared before or after the
\* call, and running the module reaches the callee.
C16_CallIndices ==
    prog.kind = "calls" =>
        /\ IsNull(cres.error)
        /\ cres.bytes.data[3].payload = importFunctions
        /\ cres.bytes.data[4].payload = definedFunctions \o DeclaredNames(prog)
        /\ Len(CodeSection) = Len(definedFunctions) + Len(DeclaredNames(prog))
        /\ \A i \in 2..Len(definedFunctions) : CodeSection[i] = Ins("helper", i - 1)
        /\ Emits(CodeOf(CalleeIndex(prog)), "f64.const", 107)
        /\ \A j \in 1..Len(CodeSection[1]) :
               CodeSection[1][j].op = "call"
                   => CodeSection[1][j].arg = CalleeIndex(prog)
        /\ Halted => (rt.status = "done" /\ rt.out = <<Printed(107, FALSE)>>)

(***************************************************************************)
(* The lowering of one expression or statement inside a function body with *)
(* prog parameters, a function f of one parameter being declared.          *)
(***************************************************************************)
Operators ==
    <<"+", "-", "*", "/", "%", "^", "==", "~=", "<", "<=", ">", ">=", "and", "or">>

ExpressionNodes ==
    <<Num(1), Str(<<97, 233>>), Bool(TRUE), Id("a", 1, 1),
     [type |-> "GroupingExpression", expression |-> Id("a", 1, 2)],
     Un("-", Num(1)), Un("-", Id("a", 1, 2)), Un("~", Id("a", 1, 2)),
     Un("+", Num(1)),
     CallExpr("f", 1, 1, <<Id("a", 1, 3)>>),
     CallExpr("is_string", 1, 1, <<Str(<<>>)>>),
     Bin("and", Bin("or", Id("a", 1, 1), Num(1)), CallExpr("f", 1, 9, <<Num(2)>>))>>
    \o [i \in 1..Len(Operators) |-> Bin(Operators[i], Id("a", 1, 1), Num(1))]

StatementNodes ==
    <<Output(Id("a", 1, 7)), OutputLn(Str(<<97>>)),
     LocalAssign("t", 1, 1, Bin("+", Id("a", 1, 6), Num(1))),
     Assign("a", 1, 1, Num(2)), Assign("u", 1, 1, Id("a", 1, 6)),
     If(Id("a", 1, 4), <<Output(Num(1))>>, <<>>, FALSE, <<>>),
     If(Id("a", 1, 4), <<LocalAssign("t", 2, 1, Num(1))>>,
        <<[condition |-> Bool(FALSE), body |-> <<ExprStmt(Num(2))>>]>>,
        TRUE, <<Ret(Num(4))>>),
     While(Id("a", 1, 7), <<Assign("a", 2, 1, Bool(FALSE))>>),
     For(LocalAssign("i", 1, 5, Num(1)), Num(3), FALSE, Num(1),
         <<Output(Id("i", 2, 7))>>),
     For(LocalAssign("i", 1, 5, Id("a", 1, 10)), Num(0), TRUE, Un("-", Num(1)),
         <<ExprStmt(CallExpr("f", 2, 1, <<Id("i", 2, 3)>>))>>),
     FuncDecl("g", 1, 6, <<Id("p", 1, 8)>>, <<Ret(Id("p", 2, 8))>>),
     FuncDecl("g", 1, 6, <<>>, <<Output(Num(1))>>),
     Ret(Id("a", 1, 8)),
     ExprStmt(CallExpr("f", 1, 1, <<Num(1)>>)),
     ExprStmt(CallExpr("is_string", 1, 1, <<Num(1)>>)),
     ExprStmt(Bin("and", Id("a", 1, 1), Num(1))),
     ExprStmt(Num(1))>>

IsExpression(node) ==
    \E i \in 1..Len(ExpressionNodes) : node.type = ExpressionNodes[i].type

InitLower ==
    /\ variant = 0
    /\ src = <<>>
    /\ pos = [line |-> 1, column |-> 1, current |-> 0]
    /\ tokens = <<>>
    /\ tokenError = Null
    /\ pc = "lower"
    /\ calls = <<>>
    /\ \E i \in 1..Len(ExpressionNodes \o StatementNodes) :
           ast = (ExpressionNodes \o StatementNodes)[i]
    /\ parseError = Null
    /\ cres = Null
    /\ result = Null
    /\ prog \in 0..(Len(ParamLists) - 1)
    /\ mstate = addUserDefinedFunction(
                    declareParams([scopes |-> << <<>> >>, localVarsIndex |-> 0,
                                   userDefinedFunctions |-> <<>>,
                                   functionBodies |-> helperBodies,
                                   strings |-> createStringTable, error |-> Null],
                                  ParamLists[prog + 1], 1),
                    "f", 1)
    /\ rt = NoRun

Lower ==
    /\ pc = "lower"
    /\ pc' = "lowered"
    /\ \E r \in {IF IsExpression(ast) THEN compileExpression(mstate, ast)
                 ELSE compileStatement(mstate, ast)} :
        /\ result' = [op |-> "lower", code |-> r.code, error |-> r.c.error]
        /\ mstate' = IF Failed(r.c) THEN mstate ELSE r.c
    /\ UNCHANGED <<lexVars, variant, calls, ast, parseError, cres, prog, rt>>

SpecLower == InitLower /\ [][Lower]_vars

(***************************************************************************)
(* The operand stack over a sequence of instructions, as the validation of *)
(* a module computes it: the types on the stack, the open blocks, whether  *)
(* the place is unreachable.                                               *)
(***************************************************************************)
Signature(c, k) ==
    IF k < Len(importFunctions) THEN functionType(importFunctions[k + 1])
    ELSE IF k < Len(importFunctions) + Len(definedFunctions)
    THEN functionType(definedFunctions[k - Len(importFunctions) + 1])
    ELSE userFunctionType(c.userDefinedFunctions[
             k - Len(importFunctions) - Len(definedFunctions) + 1])

Pops(c, ins, st) ==
    CASE ins.op \in {"local.set", "br_if", "i32.eqz", "if"} -> <<"i32">>
      [] ins.op \in {"i32.or", "i32.add", "i32.ge_u", "i32.le_u"} -> <<"i32", "i32">>
      [] ins.op = "f64.neg" -> <<"f64">>
      [] ins.op \in {"f64.add", "f64.sub", "f64.mul", "f64.div", "f64.eq",
                     "f64.ne", "f64.lt", "f64.le", "f64.gt", "f64.ge"} ->
            <<"f64", "f64">>
      [] ins.op = "drop" ->
            IF st.stack = <<>> THEN <<"i32">> ELSE <<st.stack[Len(st.stack)]>>
      [] ins.op = "call" -> Signature(c, ins.arg).params
      [] OTHER -> <<>>

Pushes(c, ins) ==
    CASE ins.op \in {"i32.const", "local.get", "i32.eqz", "i32.or", "i32.add",
                     "i32.ge_u", "i32.le_u", "f64.eq", "f64.ne", "f64.lt",
                     "f64.le", "f64.gt", "f64.ge"} -> <<"i32">>
      [] ins.op \in {"f64.const", "f64.neg", "f64.add", "f64.sub", "f64.mul",
                     "f64.div"} -> <<"f64">>
      [] ins.op = "call" -> Signature(c, ins.arg).results
      [] OTHER -> <<>>

BlockBase(st) ==
    IF st.blocks = <<>> THEN 0 ELSE st.blocks[Len(st.blocks)].base

Consume(st, pops, pushes) ==
    IF st.dead THEN st
    ELSE IF /\ Len(st.stack) - BlockBase(st) >= Len(pops)
            /\ SubSeq(st.stack, Len(st.stack) - Len(pops) + 1, Len(st.stack)) = pops
    THEN [st EXCEPT !.stack = SubSeq(st.stack, 1, Len(st.stack) - Len(pops))
                               \o pushes]
    ELSE [st EXCEPT !.ok = FALSE]

\* the end of an arm: the block's results and nothing else above its base
ArmEnds(st) ==
    /\ st.blocks # <<>>
    /\ \/ st.dead
       \/ LET b == st.blocks[Len(st.blocks)] IN
          st.stack = SubSeq(st.stack, 1, b.base) \o [i \in 1..b.arity |-> "i32"]

StackAfter(c, ins, st) ==
    LET s1 == Consume(st, Pops(c, ins, st), Pushes(c, ins)) IN
    IF ins.op \in {"block", "loop", "if"}
    THEN [s1 EXCEPT !.blocks = Append(@, [base |-> Len(s1.stack),
                                          arity |-> ins.arg, dead |-> s1.dead])]
    ELSE IF ins.op = "else"
    THEN IF ~ArmEnds(st) THEN [st EXCEPT !.ok = FALSE]
         ELSE LET b == st.blocks[Len(st.blocks)] IN
              [st EXCEPT !.stack = SubSeq(st.stack, 1, b.base), !.dead = b.dead]
    ELSE IF ins.op = "end"
    THEN IF ~ArmEnds(st) THEN [st EXCEPT !.ok = FALSE]
         ELSE LET b == st.blocks[Len(st.blocks)] IN
              [st EXCEPT !.stack = SubSeq(st.stack, 1, b.base)
                                    \o [i \in 1..b.arity |-> "i32"],
                         !.dead = b.dead,
                         !.blocks = SubSeq(st.blocks, 1, Len(st.blocks) - 1)]
    ELSE IF ins.op \in {"br", "return", "unreachable"}
    THEN [s1 EXCEPT !.dead = TRUE]
    ELSE s1

RECURSIVE StackOver(_, _, _, _)
StackOver(c, code, i, st) ==
    IF i > Len(code) \/ ~st.ok THEN st
    ELSE StackOver(c, code, i + 1, StackAfter(c, code[i], st))

StackOf(c, code) ==
    StackOver(c, code, 1, [stack |-> <<>>, blocks |-> <<>>, dead |-> FALSE,
                           ok |-> TRUE])

\* C17: the code of every expression kind leaves exactly one i32, the boxed
\* pointer, on the operand stack, and the code of every statement kind
\* leaves the stack as it found it (an ExpressionStatement drops the value
\* of its expression), so the stack is empty where a statement ends.
C17_StackDiscipline ==
    (pc = "lowered" /\ result.error = Null) =>
        LET st == StackOf(mstate, result.code) IN
        /\ st.ok /\ st.blocks = <<>>
        /\ IF IsExpression(ast)
           THEN ~st.dead /\ st.stack = <<"i32">>
           ELSE st.dead \/ st.stack = <<>>

\* C17 witness: an expression statement whose expression is `a and 1` was
\* lowered to code that ends with a drop
C17_Witness ==
    /\ pc = "lowered"
    /\ ast = ExprStmt(Bin("and", Id("a", 1, 1), Num(1)))
    /\ result.error = Null
    /\ Emits(result.code, "if", 1)
    /\ result.code[Len(result.code)] = [op |-> "drop", arg |-> 0]

(***************************************************************************)
(* tokenize as a whole.                                                    *)
(***************************************************************************)
\* C18: tokenize never throws, whatever the source, an out-of-range \u{...}
\* escape included, and every round of its scanning loop moves the current
\* position forward by at least one character or returns.
C18_TokenizeTotal ==
    /\ [](pc # "thrown")
    /\ [][pc = "tokenize" => (pos'.current > pos.current \/ pc' # "tokenize")]_vars
Returned == pc \notin {"tokenize", "thrown"}

\* the token list ends with the only EOF token it holds
EndsWithEof ==
    /\ tokens # <<>>
    /\ tokens[Len(tokens)].type = "EOF"
    /\ \A i \in 1..(Len(tokens) - 1) : tokens[i].type # "EOF"

\* tokens are only ever added at the end, and the return adds the EOF token
\* to the tokens completed so far and nothing else
OnlyEofAdded ==
    /\ Len(tokens') >= Len(tokens) /\ SubSeq(tokens', 1, Len(tokens)) = tokens
    /\ (pc = "tokenize" /\ pc' = "tokenized") =>
           /\ Len(tokens') = Len(tokens) + 1
           /\ \A i \in 1..Len(tokens) : tokens[i].end <= pos.current

\* C19: the token list tokenize returns holds exactly one EOF token, as its
\* last element, with and without an error; when there is an error the
\* tokens before the EOF are the tokens completed before the offending
\* character.
C19_EofLast ==
    /\ [](Returned => EndsWithEof)
    /\ [][OnlyEofAdded]_vars

\* C19 witness: tokenize returned an error after two tokens were completed
C19_Witness ==
    /\ Returned /\ ~IsNull(tokenError)
    /\ Len(tokens) = 3
    /\ tokens[1].type # "EOF" /\ tokens[2].type # "EOF"
    /\ tokens[3].type = "EOF"

\* the tokens before the EOF token, if it is there
Proper == {i \in 1..Len(tokens) : tokens[i].type # "EOF"}

\* C20: every token other than EOF has a span with 0 <= start < end <= length
\* of the source; a token starts at or after the end of the one before it and
\* only whitespace and newlines lie between them; the value of every token
\* other than STRING is the source from start to end.
C20_TokenSpans ==
    /\ \A i \in Proper :
           /\ 0 <= tokens[i].start /\ tokens[i].start < tokens[i].end
           /\ tokens[i].end <= Len(src)
           /\ tokens[i].type # "STRING" =>
                  tokens[i].value = SubSeq(src, tokens[i].start + 1, tokens[i].end)
    /\ \A i \in Proper : \A j \in Proper :
           j = i + 1 =>
               /\ tokens[i].end <= tokens[j].start
               /\ \A k \in (tokens[i].end + 1)..tokens[j].start :
                      src[k] \in {Ch.space, Ch.tab, Ch.cr, Ch.lf}

\* C20 witness: an identifier and a number with a blank between them
C20_Witness ==
    /\ Returned /\ IsNull(tokenError)
    /\ Len(tokens) = 3
    /\ tokens[1].type = "IDENTIFIER" /\ tokens[2].type = "NUMBER"
    /\ tokens[2].start > tokens[1].end

(***************************************************************************)
(* Where a token is, counted from the source itself.                       *)
(***************************************************************************)
\* the newlines among the first n characters of s
NewlinesBefore(s, n) == {k \in 1..n : s[k] = Ch.lf}

\* the 1-based line of the character at offset n
LineAt(s, n) == 1 + Cardinality(NewlinesBefore(s, n))

\* the 1-based column of the character at offset n
ColumnAt(s, n) ==
    IF NewlinesBefore(s, n) = {} THEN n + 1
    ELSE n + 1 - (CHOOSE k \in NewlinesBefore(s, n) :
                      \A j \in NewlinesBefore(s, n) : j <= k)

\* C21: the line and column of every token are the 1-based line and column
\* of its first character, a newline starting a new line at column 1 and
\* every other character moving one column on; also for a STRING token whose
\* literal holds newlines.
C21_TokenPosition ==
    \A i \in Proper :
        /\ tokens[i].line = LineAt(src, tokens[i].start)
        /\ tokens[i].column = ColumnAt(src, tokens[i].start)

(***************************************************************************)
(* The text of NUMBER tokens.                                              *)
(***************************************************************************)
IsDecimalDigit(c) == c >= Ch.d0 /\ c <= Ch.d9

\* one or more digits, optionally followed by one '.' and one or more digits
WellFormedNumeral(v) ==
    LET dots == {k \in 1..Len(v) : v[k] = Ch.dot} IN
    /\ Len(v) > 0
    /\ \A k \in 1..Len(v) : IsDecimalDigit(v[k]) \/ v[k] = Ch.dot
    /\ Cardinality(dots) <= 1
    /\ \A k \in dots : 1 < k /\ k < Len(v)

\* C22: the value of every NUMBER token is a well-formed decimal numeral; a
\* run of digits and dots with a leading dot, a trailing dot or more than one
\* dot gives a TokenError and no NUMBER token.
C22_NumberTokens ==
    \A i \in 1..Len(tokens) :
        tokens[i].type = "NUMBER" => WellFormedNumeral(tokens[i].value)


============================================================================
